---- MODULE Spec2Model ----
(***************************************************************************)
(* Model of the OM file writer and reader of omfilesrspy.                  *)
(*                                                                         *)
(* The file is a sequence of bytes.  A writer (OmFileWriter over an        *)
(* OmBufferedWriter over a backend) appends header, compressed chunks,     *)
(* compressed lookup tables, variable records and the trailer; a reader    *)
(* (OmFileReader) opens whatever bytes the backend holds and reads slices. *)
(***************************************************************************)
EXTENDS Integers, Sequences, FiniteSets, TLC

VARIABLES
    buffer,               \* OmBufferedWriter.buffer (Vec<u8>, its length is the capacity)
    write_position,       \* OmBufferedWriter.write_position
    total_bytes_written,  \* OmBufferedWriter.total_bytes_written
    initial_capacity,     \* OmBufferedWriter.initial_capacity
    backend,              \* bytes the backend has received through write()
    sync_calls,           \* number of synchronize() calls the backend has received
    array_writer,         \* the live OmFileWriterArray, or NoArray
    finalized,            \* the OmFileWriterArrayFinalized held by the caller, or NoArray
    written,              \* the OmOffsetSize values returned by write_scalar / write_array
    hist,                 \* history of the writer session
    last,                 \* the last writer or tree operation and its result
    reader,               \* result of the last OmFileReader::new over the backend
    read_result,          \* the read, read_into or child lookup of the reader: its
                          \* result, or the run of decode while it is in progress
    tree,                 \* the VariableTree of a higher-level writer
    py                    \* an OmFilePyReader, the Arc of its backend and the threads that call it

vars == <<buffer, write_position, total_bytes_written, initial_capacity, backend,
          sync_calls, array_writer, finalized, written, hist, last, reader, read_result,
          tree, py>>

-----------------------------------------------------------------------------
(* Bounds of the model *)

MaxDim == 2          \* array dimensions range over 1..MaxDim on each axis
MaxRecords == 2      \* record writes (write_scalar, write_array) per session
MaxTrailers == 2     \* write_trailer calls per session
MaxChildren == 1     \* children passed to one record write
MaxRejected == 1     \* write_data calls per session that return an error
MaxNodes == 3        \* records of a session that writes a hierarchy
MaxThreads == 2      \* threads that call into the Python reader objects

(* Program constants *)

HeaderWriteSize == 3     \* om_header_write_size(): magic 'O' 'M' and the version byte
HeaderReadSize == 40     \* om_header_size(): number of bytes OmFileReader::new fetches at offset 0
TrailerSize == 24        \* om_trailer_size()
ScalarBaseSize == 8      \* fixed part of a scalar record
ArrayBaseSize == 40      \* fixed part of an array record
Huge == 1000000          \* stands for any u64 that is beyond every file length of the model

-----------------------------------------------------------------------------
(* Bytes and integers *)

Zeros(n) == [i \in 1..n |-> 0]

Min(a, b) == IF a < b THEN a ELSE b

\* n as w little-endian bytes (n < 2^24 in this model)
LE(n, w) == [i \in 1..w |->
               IF i = 1 THEN n % 256
               ELSE IF i = 2 THEN (n \div 256) % 256
               ELSE IF i = 3 THEN (n \div 65536) % 256
               ELSE 0]

\* the integer a little-endian byte string stands for
FromLE(bs) ==
    IF \E i \in 4..Len(bs) : bs[i] # 0 THEN Huge
    ELSE (IF Len(bs) >= 1 THEN bs[1] ELSE 0)
         + (IF Len(bs) >= 2 THEN bs[2] * 256 ELSE 0)
         + (IF Len(bs) >= 3 THEN bs[3] * 65536 ELSE 0)

RECURSIVE Concat(_)
Concat(ss) == IF ss = <<>> THEN <<>> ELSE Head(ss) \o Concat(Tail(ss))

RECURSIVE Product(_)
Product(s) == IF s = <<>> THEN 1 ELSE Head(s) * Product(Tail(s))

divide_rounded_up(value, divisor) ==
    IF value % divisor = 0 THEN value \div divisor ELSE value \div divisor + 1

(* u64 arithmetic.  A u64 is kept modulo 2^64 and written as the representative
   of least magnitude: 2^64 - k is written -k, so u64::MAX is -1. *)

\* a + b as the wrapping u64 sum
u64_add(a, b) == a + b

\* the mathematical sum does not fit into a u64
u64_add_overflows(a, b) == (a < 0 /\ b < 0) \/ ((a < 0) # (b < 0) /\ a + b >= 0)

\* a > b as u64
u64_gt(a, b) == IF (a < 0) = (b < 0) THEN a > b ELSE a < 0

-----------------------------------------------------------------------------
(* OmBufferedWriter: operations on a record
   [buffer, write_position, total_bytes_written, initial_capacity, backend] *)

BufferedWriter == [buffer |-> buffer, write_position |-> write_position,
                   total_bytes_written |-> total_bytes_written,
                   initial_capacity |-> initial_capacity, backend |-> backend]

OmBufferedWriter_new(capacity) ==
    [buffer |-> Zeros(capacity), write_position |-> 0, total_bytes_written |-> 0,
     initial_capacity |-> capacity, backend |-> <<>>]

increment_write_position(b, bytes) ==
    [b EXCEPT !.write_position = @ + bytes, !.total_bytes_written = @ + bytes]

reset_write_position(b) == [b EXCEPT !.write_position = 0]

remaining_capacity(b) == Len(b.buffer) - b.write_position

\* InMemoryBackend::write / File::write_all: the bytes are appended
backend_write(data, bytes) == data \o bytes

\* write_to_file that forgets reset_write_position
write_to_file_keeps_position(b) ==
    IF b.write_position = 0 THEN b
    ELSE [b EXCEPT !.backend = backend_write(@, SubSeq(b.buffer, 1, b.write_position))]

write_to_file(b) ==
    IF b.write_position = 0 THEN b
    ELSE reset_write_position(
           [b EXCEPT !.backend = backend_write(@, SubSeq(b.buffer, 1, b.write_position)),
                     !.buffer = [i \in 1..Len(b.buffer) |->
                                   IF i <= b.write_position THEN 0 ELSE b.buffer[i]]])

\* reallocate that grows the buffer to the requested minimum itself
reallocate_to_minimum(b, minimum_capacity) ==
    IF remaining_capacity(b) >= minimum_capacity THEN b
    ELSE LET f == write_to_file(b) IN
         IF Len(f.buffer) >= minimum_capacity THEN f
         ELSE [f EXCEPT !.buffer = @ \o Zeros(minimum_capacity - Len(@))]

reallocate(b, minimum_capacity) ==
    IF remaining_capacity(b) >= minimum_capacity THEN b
    ELSE LET f == write_to_file(b) IN
         IF Len(f.buffer) >= minimum_capacity THEN f
         ELSE LET new_capacity ==
                    divide_rounded_up(minimum_capacity, f.initial_capacity) * f.initial_capacity
              IN [f EXCEPT !.buffer = @ \o Zeros(new_capacity - Len(@))]

\* a foreign function writing bytes through buffer_at_write_position()
store_at_write_position(b, bytes) ==
    [b EXCEPT !.buffer = [i \in 1..Len(b.buffer) |->
                            IF i > b.write_position /\ i <= b.write_position + Len(bytes)
                            THEN bytes[i - b.write_position] ELSE b.buffer[i]]]

\* bytes_to_pad taken from the position in the buffer instead of the file offset
bytes_to_pad_in_buffer(b) == 8 - (b.write_position % 8)

bytes_to_pad(b) == 8 - (b.total_bytes_written % 8)

\* align_to_64_bytes without the early return: pads 8 bytes at an aligned position
align_to_64_bytes_pads_aligned(b) ==
    LET r == reallocate(b, bytes_to_pad(b)) IN
    increment_write_position(store_at_write_position(r, Zeros(bytes_to_pad(b))),
                             bytes_to_pad(b))

align_to_64_bytes(b) ==
    IF bytes_to_pad(b) = 8 THEN b
    ELSE LET r == reallocate(b, bytes_to_pad(b)) IN
         increment_write_position(store_at_write_position(r, Zeros(bytes_to_pad(b))),
                                  bytes_to_pad(b))

\* the bytes of the file so far: flushed bytes followed by the buffered ones
FileBytes(b) == b.backend \o SubSeq(b.buffer, 1, b.write_position)

-----------------------------------------------------------------------------
(* Data types and compression tags *)

DataType_Int8 == 1
DataType_Int32 == 5
DataType_Uint8Array == 13
CompressionType_PforDelta2d == 2
CompressionType_None == 4

ScalarValueSize(data_type) == IF data_type = DataType_Int32 THEN 4 ELSE 1

\* an OmOffsetSize
OmOffsetSize_new(offset, size) == [offset |-> offset, size |-> size]

is_scalar(data_type) == data_type <= 11

-----------------------------------------------------------------------------
(* Byte layouts written by the format library *)

\* om_header_write
HeaderBytes == <<79, 77, 3>>

\* om_trailer_write
TrailerBytes(offset, size) == <<79, 77, 3, 0, 0, 0, 0, 0>> \o LE(offset, 8) \o LE(size, 8)

ChildrenBytes(children) ==
    Concat([i \in 1..Len(children) |-> LE(children[i].size, 8)])
    \o Concat([i \in 1..Len(children) |-> LE(children[i].offset, 8)])

\* om_variable_write_scalar_size
om_variable_write_scalar_size(name_len, children_count, data_type) ==
    ScalarBaseSize + 16 * children_count + ScalarValueSize(data_type) + name_len

\* om_variable_write_scalar
ScalarRecordBytes(data_type, value, name, children) ==
    <<data_type, CompressionType_None>> \o LE(Len(name), 2) \o LE(Len(children), 4)
    \o ChildrenBytes(children) \o LE(value, ScalarValueSize(data_type)) \o name

\* om_variable_write_numeric_array_size
om_variable_write_numeric_array_size(name_len, children_count, rank) ==
    ArrayBaseSize + 16 * children_count + 16 * rank + name_len

\* om_variable_write_numeric_array (scale_factor 1.0 and add_offset 0.0 as f32)
ArrayRecordBytes(array, name, children) ==
    <<array.data_type, array.compression>> \o LE(Len(name), 2) \o LE(Len(children), 4)
    \o LE(array.lut_size, 8) \o LE(array.lut_offset, 8) \o LE(Len(array.dimensions), 8)
    \o <<0, 0, 128, 63>> \o <<0, 0, 0, 0>>
    \o ChildrenBytes(children)
    \o Concat([i \in 1..Len(array.dimensions) |-> LE(array.dimensions[i], 8)])
    \o Concat([i \in 1..Len(array.chunks) |-> LE(array.chunks[i], 8)])
    \o name

-----------------------------------------------------------------------------
(* OmFileWriter *)

\* write_header_if_required that tests write_position instead of total_bytes_written
write_header_if_buffer_empty(b) ==
    IF b.write_position > 0 THEN b
    ELSE increment_write_position(
           store_at_write_position(reallocate(b, HeaderWriteSize), HeaderBytes),
           HeaderWriteSize)

\* write_header_if_required that flushes the header at once
write_header_and_flush(b) ==
    IF b.total_bytes_written > 0 THEN b
    ELSE write_to_file(increment_write_position(
           store_at_write_position(reallocate(b, HeaderWriteSize), HeaderBytes),
           HeaderWriteSize))

write_header_if_required(b) ==
    IF b.total_bytes_written > 0 THEN b
    ELSE increment_write_position(
           store_at_write_position(reallocate(b, HeaderWriteSize), HeaderBytes),
           HeaderWriteSize)

write_scalar(b, data_type, value, name, children) ==
    LET h == write_header_if_required(b)
        size == om_variable_write_scalar_size(Len(name), Len(children), data_type)
        a == align_to_64_bytes(h)
        offset == a.total_bytes_written
        r == reallocate(a, size)
        s == store_at_write_position(r, ScalarRecordBytes(data_type, value, name, children))
    IN [b |-> increment_write_position(s, size), result |-> OmOffsetSize_new(offset, size)]

write_array(b, array, name, children) ==
    LET h == write_header_if_required(b)
        size == om_variable_write_numeric_array_size(Len(name), Len(children),
                                                     Len(array.dimensions))
        a == align_to_64_bytes(h)
        offset == a.total_bytes_written
        r == reallocate(a, size)
        s == store_at_write_position(r, ArrayRecordBytes(array, name, children))
    IN [b |-> increment_write_position(s, size), result |-> OmOffsetSize_new(offset, size)]

\* write_trailer that passes size and offset in the wrong order
write_trailer_swapped(b, root_variable) ==
    LET h == write_header_if_required(b)
        a == align_to_64_bytes(h)
        r == reallocate(a, TrailerSize)
        t == increment_write_position(
               store_at_write_position(r, TrailerBytes(root_variable.size, root_variable.offset)),
               TrailerSize)
    IN write_to_file(t)

write_trailer(b, root_variable) ==
    LET h == write_header_if_required(b)
        a == align_to_64_bytes(h)
        r == reallocate(a, TrailerSize)
        t == increment_write_position(
               store_at_write_position(r, TrailerBytes(root_variable.offset, root_variable.size)),
               TrailerSize)
    IN write_to_file(t)

-----------------------------------------------------------------------------
(* The encoder of the format library *)

\* number of chunks along axis i
ChunksInDim(dimensions, chunks, i) == divide_rounded_up(dimensions[i], chunks[i])

\* om_encoder_count_chunks
om_encoder_count_chunks(dimensions, chunks) ==
    Product([i \in 1..Len(dimensions) |-> ChunksInDim(dimensions, chunks, i)])

\* om_encoder_count_chunks_in_array
om_encoder_count_chunks_in_array(chunks, array_count) ==
    Product([i \in 1..Len(chunks) |-> divide_rounded_up(array_count[i], chunks[i])])

\* om_encoder_compressed_chunk_buffer_size: upper bound of one compressed chunk
om_encoder_compressed_chunk_buffer_size(chunks) == Product(chunks)

\* product of the entries of s after position i
Stride(s, i) == Product(SubSeq(s, i + 1, Len(s)))

\* coordinate along axis i of the chunk with the given index
ChunkCoordinate(dimensions, chunks, chunk_index, i) ==
    (chunk_index \div Stride([j \in 1..Len(dimensions) |-> ChunksInDim(dimensions, chunks, j)], i))
        % ChunksInDim(dimensions, chunks, i)

\* shape of the chunk with the given index (the last chunk of an axis is truncated)
ChunkShape(dimensions, chunks, chunk_index) ==
    [i \in 1..Len(dimensions) |->
        LET c0 == ChunkCoordinate(dimensions, chunks, chunk_index, i)
        IN Min((c0 + 1) * chunks[i], dimensions[i]) - c0 * chunks[i]]

\* coordinates (0-based) of element e (0-based, row-major) in a box of the given shape
Coordinates(shape, e) == [i \in 1..Len(shape) |-> (e \div Stride(shape, i)) % shape[i]]

\* row-major position (0-based) of coordinates in a box of the given shape
Linear(shape, coords) ==
    LET RECURSIVE Sum(_)
        Sum(i) == IF i > Len(shape) THEN 0 ELSE coords[i] * Stride(shape, i) + Sum(i + 1)
    IN Sum(1)

\* om_encoder_compress_chunk with a lossless codec: the elements of the chunk, in
\* row-major order, one byte each.  The chunk shape follows from chunkIndex, the
\* place in the source array from chunkIndexOffsetInThisArray; an element outside
\* the source array reads memory that is not the array's (garbage).
om_encoder_compress_chunk(dimensions, chunks, array, array_dimensions, array_offset, array_count, chunkIndex, chunkIndexOffsetInThisArray, garbage) ==
    LET shape == ChunkShape(dimensions, chunks, chunkIndex)
        src(e) == [i \in 1..Len(dimensions) |->
                     ChunkCoordinate(dimensions, chunks, chunkIndexOffsetInThisArray, i) * chunks[i]
                     + (IF i <= Len(array_offset) THEN array_offset[i] ELSE garbage)
                     + Coordinates(shape, e)[i]]
        inside(c) == \A i \in 1..Len(dimensions) :
                        i <= Len(array_dimensions) /\ c[i] >= 0 /\ c[i] < array_dimensions[i]
    IN [e \in 1..Product(shape) |->
          IF inside(src(e - 1)) /\ Linear(array_dimensions, src(e - 1)) < Len(array)
          THEN array[Linear(array_dimensions, src(e - 1)) + 1]
          ELSE garbage]

\* om_encoder_compress_lut with a lossless delta codec: the first entry and then
\* the differences of successive entries, two bytes each
om_encoder_compress_lut(look_up_table) ==
    Concat([i \in 1..Len(look_up_table) |->
              IF i = 1 THEN LE(look_up_table[1], 2)
              ELSE LE((look_up_table[i] - look_up_table[i - 1] + 65536) % 65536, 2)])

\* om_encoder_lut_buffer_size
om_encoder_lut_buffer_size(look_up_table) == 2 * Len(look_up_table)

-----------------------------------------------------------------------------
(* OmFileWriterArray: operations on a record
   [dimensions, chunks, look_up_table, chunk_index, compressed_chunk_buffer_size];
   look_up_table[k + 1] is entry k of the Vec *)

NoArray == [none |-> TRUE]

\* a result: "ok", the name of an OmFilesRsError variant, or "panic"
Err(kind) == [kind |-> kind, offset |-> 0, count |-> 0, dimension |-> 0]
Ok == Err("ok")

OmFileWriterArray_new(dimensions, chunk_dimensions) ==
    IF Len(dimensions) # Len(chunk_dimensions)
    THEN [err |-> Err("MismatchingCubeDimensionLength"), aw |-> NoArray]
    ELSE [err |-> Ok,
          aw |-> [dimensions |-> dimensions,
                  chunks |-> chunk_dimensions,
                  look_up_table |-> Zeros(om_encoder_count_chunks(dimensions, chunk_dimensions) + 1),
                  chunk_index |-> 0,
                  compressed_chunk_buffer_size |->
                      om_encoder_compressed_chunk_buffer_size(chunk_dimensions)]]

\* the loop of write_data_flat over chunk_offset in from..number_of_chunks_in_array - 1
RECURSIVE CompressChunks(_, _, _, _, _, _, _, _, _)
CompressChunks(aw, b, array, array_dimensions, array_offset, array_count, chunk_offset, number_of_chunks_in_array, garbage) ==
    IF chunk_offset >= number_of_chunks_in_array THEN [err |-> Ok, aw |-> aw, b |-> b]
    ELSE LET r == reallocate(b, aw.compressed_chunk_buffer_size)
             bytes == om_encoder_compress_chunk(aw.dimensions, aw.chunks, array,
                          array_dimensions, array_offset, array_count,
                          aw.chunk_index, chunk_offset, garbage)
             w == increment_write_position(store_at_write_position(r, bytes), Len(bytes))
         IN IF aw.chunk_index + 1 >= Len(aw.look_up_table)
            THEN [err |-> Err("panic"), aw |-> aw, b |-> w]    \* index out of bounds
            ELSE CompressChunks(
                   [aw EXCEPT !.look_up_table[aw.chunk_index + 2] = w.total_bytes_written,
                              !.chunk_index = @ + 1],
                   w, array, array_dimensions, array_offset, array_count,
                   chunk_offset + 1, number_of_chunks_in_array, garbage)

\* first axis of the zipped (dimension, offset, count) on which offset + count,
\* the wrapping u64 sum, exceeds the dimension; 0 if none
FirstExceeding(dims, offset, count) ==
    LET n == Min(Len(dims), Min(Len(offset), Len(count)))
        bad == {i \in 1..n : u64_gt(u64_add(offset[i], count[i]), dims[i])}
    IN IF bad = {} THEN 0 ELSE CHOOSE i \in bad : \A j \in bad : i <= j

\* first axis of the zip on which offset + count overflows the u64; 0 if none
FirstOverflowing(dims, offset, count) ==
    LET n == Min(Len(dims), Min(Len(offset), Len(count)))
        bad == {i \in 1..n : u64_add_overflows(offset[i], count[i])}
    IN IF bad = {} THEN 0 ELSE CHOOSE i \in bad : \A j \in bad : i <= j

\* write_data_flat without the comparison of array_count with the dimensions
write_data_flat_count_unchecked(aw, b, array, array_dimensions, array_offset, array_count, garbage, overflow_checks) ==
    IF Len(array_count) # Len(aw.dimensions)
    THEN [err |-> Err("ChunkHasWrongNumberOfElements"), aw |-> aw, b |-> b]
    ELSE IF Len(array) # Product(array_dimensions)
    THEN [err |-> Err("ChunkHasWrongNumberOfElements"), aw |-> aw, b |-> b]
    ELSE IF /\ overflow_checks
            /\ FirstOverflowing(array_dimensions, array_offset, array_count) # 0
            /\ \/ FirstExceeding(array_dimensions, array_offset, array_count) = 0
               \/ FirstOverflowing(array_dimensions, array_offset, array_count)
                      <= FirstExceeding(array_dimensions, array_offset, array_count)
    THEN [err |-> Err("panic"), aw |-> aw, b |-> b]    \* attempt to add with overflow
    ELSE IF FirstExceeding(array_dimensions, array_offset, array_count) # 0
    THEN LET i == FirstExceeding(array_dimensions, array_offset, array_count)
         IN [err |-> [kind |-> "OffsetAndCountExceedDimension", offset |-> array_offset[i],
                     count |-> array_count[i], dimension |-> array_dimensions[i]],
             aw |-> aw, b |-> b]
    ELSE LET r == reallocate(b, aw.compressed_chunk_buffer_size * 4)
             number_of_chunks_in_array ==
                 om_encoder_count_chunks_in_array(aw.chunks, array_count)
             a0 == IF aw.chunk_index = 0
                   THEN [aw EXCEPT !.look_up_table[1] = r.total_bytes_written]
                   ELSE aw
         IN CompressChunks(a0, r, array, array_dimensions, array_offset, array_count,
                           0, number_of_chunks_in_array, garbage)

\* write_data_flat that sets the first entry of the lookup table in every call
write_data_flat_restarts_lut(aw, b, array, array_dimensions, array_offset, array_count, garbage, overflow_checks) ==
    IF Len(array_count) # Len(aw.dimensions)
    THEN [err |-> Err("ChunkHasWrongNumberOfElements"), aw |-> aw, b |-> b]
    ELSE IF \E i \in 1..Len(array_count) : u64_gt(array_count[i], aw.dimensions[i])
    THEN [err |-> Err("ChunkHasWrongNumberOfElements"), aw |-> aw, b |-> b]
    ELSE IF Len(array) # Product(array_dimensions)
    THEN [err |-> Err("ChunkHasWrongNumberOfElements"), aw |-> aw, b |-> b]
    ELSE IF /\ overflow_checks
            /\ FirstOverflowing(array_dimensions, array_offset, array_count) # 0
            /\ \/ FirstExceeding(array_dimensions, array_offset, array_count) = 0
               \/ FirstOverflowing(array_dimensions, array_offset, array_count)
                      <= FirstExceeding(array_dimensions, array_offset, array_count)
    THEN [err |-> Err("panic"), aw |-> aw, b |-> b]    \* attempt to add with overflow
    ELSE IF FirstExceeding(array_dimensions, array_offset, array_count) # 0
    THEN LET i == FirstExceeding(array_dimensions, array_offset, array_count)
         IN [err |-> [kind |-> "OffsetAndCountExceedDimension", offset |-> array_offset[i],
                     count |-> array_count[i], dimension |-> array_dimensions[i]],
             aw |-> aw, b |-> b]
    ELSE LET r == reallocate(b, aw.compressed_chunk_buffer_size * 4)
             number_of_chunks_in_array ==
                 om_encoder_count_chunks_in_array(aw.chunks, array_count)
             a0 == [aw EXCEPT !.look_up_table[1] = r.total_bytes_written]
         IN CompressChunks(a0, r, array, array_dimensions, array_offset, array_count,
                           0, number_of_chunks_in_array, garbage)

\* overflow_checks: the build panics on integer overflow (debug profile) instead
\* of wrapping (release profile)
write_data_flat(aw, b, array, array_dimensions, array_offset, array_count, garbage, overflow_checks) ==
    IF Len(array_count) # Len(aw.dimensions)
    THEN [err |-> Err("ChunkHasWrongNumberOfElements"), aw |-> aw, b |-> b]
    ELSE IF \E i \in 1..Len(array_count) : u64_gt(array_count[i], aw.dimensions[i])
    THEN [err |-> Err("ChunkHasWrongNumberOfElements"), aw |-> aw, b |-> b]
    ELSE IF Len(array) # Product(array_dimensions)
    THEN [err |-> Err("ChunkHasWrongNumberOfElements"), aw |-> aw, b |-> b]
    ELSE IF /\ overflow_checks
            /\ FirstOverflowing(array_dimensions, array_offset, array_count) # 0
            /\ \/ FirstExceeding(array_dimensions, array_offset, array_count) = 0
               \/ FirstOverflowing(array_dimensions, array_offset, array_count)
                      <= FirstExceeding(array_dimensions, array_offset, array_count)
    THEN [err |-> Err("panic"), aw |-> aw, b |-> b]    \* attempt to add with overflow
    ELSE IF FirstExceeding(array_dimensions, array_offset, array_count) # 0
    THEN LET i == FirstExceeding(array_dimensions, array_offset, array_count)
         IN [err |-> [kind |-> "OffsetAndCountExceedDimension", offset |-> array_offset[i],
                     count |-> array_count[i], dimension |-> array_dimensions[i]],
             aw |-> aw, b |-> b]
    ELSE LET r == reallocate(b, aw.compressed_chunk_buffer_size * 4)
             number_of_chunks_in_array ==
                 om_encoder_count_chunks_in_array(aw.chunks, array_count)
             a0 == IF aw.chunk_index = 0
                   THEN [aw EXCEPT !.look_up_table[1] = r.total_bytes_written]
                   ELSE aw
         IN CompressChunks(a0, r, array, array_dimensions, array_offset, array_count,
                           0, number_of_chunks_in_array, garbage)

write_lut(aw, b) ==
    LET buffer_size == om_encoder_lut_buffer_size(aw.look_up_table)
        r == reallocate(b, buffer_size)
        bytes == om_encoder_compress_lut(aw.look_up_table)
    IN [b |-> increment_write_position(store_at_write_position(r, bytes), Len(bytes)),
        compressed_lut_size |-> Len(bytes)]

\* finalize that takes lut_offset after the lookup table was written
finalize_offset_after_lut(aw, b) ==
    LET l == write_lut(aw, b)
        lut_offset == l.b.total_bytes_written
    IN [b |-> l.b,
        array |-> [data_type |-> DataType_Uint8Array,
                   compression |-> CompressionType_PforDelta2d,
                   dimensions |-> aw.dimensions,
                   chunks |-> aw.chunks,
                   lut_size |-> l.compressed_lut_size,
                   lut_offset |-> lut_offset]]

\* finalize: the OmFileWriterArrayFinalized and the buffered writer after the LUT
finalize(aw, b) ==
    LET lut_offset == b.total_bytes_written
        l == write_lut(aw, b)
    IN [b |-> l.b,
        array |-> [data_type |-> DataType_Uint8Array,
                   compression |-> CompressionType_PforDelta2d,
                   dimensions |-> aw.dimensions,
                   chunks |-> aw.chunks,
                   lut_size |-> l.compressed_lut_size,
                   lut_offset |-> lut_offset]]

-----------------------------------------------------------------------------
(* VariableTree: a record [nodes, pending_parents, root].  nodes maps a name to
   a VariableNode [variable, parent, children], pending_parents maps the name
   of a child that does not exist yet to the set of parents that named it.
   The empty string stands for None in parent and root.  A result carries the
   message of the PyValueError, or "ok" *)

EmptyMap == [x \in {} |-> x]

\* HashMap::insert
Put(map, key, value) == [x \in DOMAIN map \cup {key} |-> IF x = key THEN value ELSE map[x]]

\* HashMap::remove
Remove(map, key) == [x \in DOMAIN map \ {key} |-> map[x]]

VariableTree_new == [nodes |-> EmptyMap, pending_parents |-> EmptyMap, root |-> ""]

add_node(t, name, variable) ==
    IF name \in DOMAIN t.nodes THEN [err |-> "Variable already exists", tree |-> t]
    ELSE LET pending == Remove(t.pending_parents, name)
         IN [err |-> "ok",
             tree |-> [nodes |-> Put(t.nodes, name,
                                     [variable |-> variable, parent |-> "", children |-> <<>>]),
                       pending_parents |-> pending,
                       root |-> IF ~\E child \in DOMAIN pending : name \in pending[child]
                                THEN name ELSE t.root]]

\* the first loop of set_children from child i on: a child that exists must
\* have no parent and is collected, a child that does not exist is entered in
\* pending_parents; the entries made before an error stay
RECURSIVE ValidateChildren(_, _, _, _, _)
ValidateChildren(t, parent_name, children, i, children_to_update) ==
    IF i > Len(children)
    THEN [err |-> "ok", tree |-> t, children_to_update |-> children_to_update]
    ELSE IF children[i] \in DOMAIN t.nodes
    THEN IF t.nodes[children[i]].parent # ""
         THEN [err |-> "Child already has a parent", tree |-> t,
               children_to_update |-> children_to_update]
         ELSE ValidateChildren(t, parent_name, children, i + 1,
                               children_to_update \cup {children[i]})
    ELSE ValidateChildren(
           [t EXCEPT !.pending_parents =
               Put(@, children[i],
                   (IF children[i] \in DOMAIN @ THEN @[children[i]] ELSE {}) \cup {parent_name})],
           parent_name, children, i + 1, children_to_update)

set_children(t, parent_name, children) ==
    IF parent_name \notin DOMAIN t.nodes
    THEN [err |-> "Parent variable does not exist", tree |-> t]
    ELSE LET v == ValidateChildren(t, parent_name, children, 1, {})
         IN IF v.err # "ok" THEN [err |-> v.err, tree |-> v.tree]
            ELSE [err |-> "ok",
                  tree |-> [v.tree EXCEPT !.nodes =
                      [n \in DOMAIN @ |->
                         [@[n] EXCEPT !.parent = IF n \in v.children_to_update
                                                 THEN parent_name ELSE @,
                                      !.children = IF n = parent_name THEN children ELSE @]]]]

\* visit of check_for_cycles; st is [err, visited, stack]
RECURSIVE cycle_visit(_, _, _)
RECURSIVE cycle_visit_children(_, _, _, _)
\* the visit that looks a name up in visited before it looks in the stack
cycle_visit_visited_first(t, name, st) ==
    IF name \in st.visited THEN st
    ELSE IF name \in st.stack THEN [st EXCEPT !.err = "Cycle detected in variable tree"]
    ELSE LET entered == [st EXCEPT !.visited = @ \cup {name}, !.stack = @ \cup {name}]
             after == IF name \in DOMAIN t.nodes
                      THEN cycle_visit_children(t, t.nodes[name].children, 1, entered)
                      ELSE entered
         IN IF after.err # "ok" THEN after ELSE [after EXCEPT !.stack = @ \ {name}]

cycle_visit(t, name, st) ==
    IF name \in st.stack THEN [st EXCEPT !.err = "Cycle detected in variable tree"]
    ELSE IF name \in st.visited THEN st
    ELSE LET entered == [st EXCEPT !.visited = @ \cup {name}, !.stack = @ \cup {name}]
             after == IF name \in DOMAIN t.nodes
                      THEN cycle_visit_children(t, t.nodes[name].children, 1, entered)
                      ELSE entered
         IN IF after.err # "ok" THEN after ELSE [after EXCEPT !.stack = @ \ {name}]

cycle_visit_children(t, children, i, st) ==
    IF i > Len(children) \/ st.err # "ok" THEN st
    ELSE cycle_visit_children(t, children, i + 1, cycle_visit(t, children[i], st))

\* the loop of check_for_cycles over nodes.keys(), which come in the order keys
RECURSIVE check_for_cycles_from(_, _, _, _)
check_for_cycles_from(t, keys, i, st) ==
    IF i > Len(keys) \/ st.err # "ok" THEN st.err
    ELSE check_for_cycles_from(t, keys, i + 1,
                               IF keys[i] \in st.visited THEN st ELSE cycle_visit(t, keys[i], st))

check_for_cycles(t, keys) ==
    check_for_cycles_from(t, keys, 1, [err |-> "ok", visited |-> {}, stack |-> {}])

validate_tree(t, keys) ==
    IF DOMAIN t.pending_parents # {}
    THEN "Some children were specified but never created"
    ELSE check_for_cycles(t, keys)

\* visit of get_write_order; st is [visited, order]
RECURSIVE order_visit(_, _, _)
RECURSIVE order_visit_children(_, _, _, _)
order_visit(t, name, st) ==
    IF name \in st.visited THEN st
    ELSE LET entered == [st EXCEPT !.visited = @ \cup {name}]
         IN IF name \in DOMAIN t.nodes
            THEN LET after == order_visit_children(t, t.nodes[name].children, 1, entered)
                 IN [after EXCEPT !.order = Append(@, name)]
            ELSE entered

order_visit_children(t, children, i, st) ==
    IF i > Len(children) THEN st
    ELSE order_visit_children(t, children, i + 1, order_visit(t, children[i], st))

RECURSIVE order_visit_all(_, _, _, _)
order_visit_all(t, keys, i, st) ==
    IF i > Len(keys) THEN st
    ELSE order_visit_all(t, keys, i + 1, order_visit(t, keys[i], st))

\* get_write_order with the parent pushed before its children are visited
get_write_order_parent_first(t, keys) ==
    LET RECURSIVE pre(_, _)
        pre(name, st) ==
            IF name \in st.visited \/ name \notin DOMAIN t.nodes THEN st
            ELSE LET RECURSIVE each(_, _)
                     each(i, s2) == IF i > Len(t.nodes[name].children) THEN s2
                                    ELSE each(i + 1, pre(t.nodes[name].children[i], s2))
                 IN each(1, [visited |-> st.visited \cup {name}, order |-> Append(st.order, name)])
    IN pre(t.root, [visited |-> {}, order |-> <<>>]).order

get_write_order(t, keys) ==
    IF t.root # "" THEN order_visit(t, t.root, [visited |-> {}, order |-> <<>>]).order
    ELSE order_visit_all(t, keys, 1, [visited |-> {}, order |-> <<>>]).order

\* the bytes of a node name
NameBytes(name) == IF name = "a" THEN <<97>> ELSE IF name = "b" THEN <<98>> ELSE <<99>>

\* the loop of write_variables over write_order from position i on: the node is
\* taken from nodes, the OmOffsetSize of each child is looked up, the record is
\* written and its OmOffsetSize entered
RECURSIVE WriteNodes(_, _, _, _, _)
WriteNodes(nodes, b, write_order, i, offset_sizes) ==
    IF i > Len(write_order) THEN [err |-> "ok", b |-> b, offset_sizes |-> offset_sizes]
    ELSE IF write_order[i] \notin DOMAIN nodes
    THEN WriteNodes(nodes, b, write_order, i + 1, offset_sizes)
    ELSE LET name == write_order[i]
             node == nodes[name]
         IN IF \E k \in 1..Len(node.children) : node.children[k] \notin DOMAIN offset_sizes
            THEN [err |-> "Child has not been written yet", b |-> b,
                  offset_sizes |-> offset_sizes]
            ELSE LET children_offsets ==
                         [k \in 1..Len(node.children) |-> offset_sizes[node.children[k]]]
                     w == IF node.variable.kind = "Scalar"
                          THEN write_scalar(b, node.variable.data_type, node.variable.value,
                                            NameBytes(name), children_offsets)
                          ELSE write_array(b, node.variable.array, NameBytes(name),
                                           children_offsets)
                 IN WriteNodes(Remove(nodes, name), w.b, write_order, i + 1,
                               Put(offset_sizes, name, w.result))

\* write_variables: [err, tree, b, write_order, offset_sizes, result]; result
\* is the OmOffsetSize of the root, or NoResult for None
write_variables(t, b, keys) ==
    IF validate_tree(t, keys) # "ok"
    THEN [err |-> validate_tree(t, keys), tree |-> t, b |-> b, write_order |-> <<>>,
          offset_sizes |-> EmptyMap, result |-> OmOffsetSize_new(0, 0)]
    ELSE LET write_order == get_write_order(t, keys)
             w == WriteNodes(t.nodes, b, write_order, 1, EmptyMap)
         IN [err |-> w.err, tree |-> [t EXCEPT !.nodes = EmptyMap], b |-> w.b,
             write_order |-> write_order, offset_sizes |-> w.offset_sizes,
             result |-> IF w.err = "ok" /\ t.root \in DOMAIN w.offset_sizes
                        THEN w.offset_sizes[t.root] ELSE OmOffsetSize_new(0, 0)]

-----------------------------------------------------------------------------
(* The writer session *)

InitialCapacities == {8, 128}

Names == {<<110>>, <<110, 97, 109>>}

\* the scalars a caller writes: data type, value and name
Scalars == {<<DataType_Int8, 7, (<<115>>)>>, <<DataType_Int32, 300, (<<105, 110, 116>>)>>}

\* dimensions and chunk dimensions of the arrays a caller prepares; a chunk
\* dimension may exceed its dimension; the last pair has mismatching ranks
ArrayShapes ==
    ([1..2 -> 1..MaxDim] \X [1..2 -> 1..(MaxDim + 1)]) \cup {<<(<<2, 2>>), (<<1>>)>>}

\* the array a caller stores: element n (row-major, from 1) holds the value n
SourceArray(dimensions) == [n \in 1..Product(dimensions) |-> n]

\* children lists a caller may pass: earlier results, at most MaxChildren of them
RECURSIVE ChildLists(_, _)
ChildLists(results, n) ==
    IF n = 0 THEN {<<>>}
    ELSE ChildLists(results, n - 1)
         \cup {Append(l, results[i]) : l \in ChildLists(results, n - 1), i \in 1..Len(results)}

NoReader == [state |-> "none"]
NoRead == [state |-> "none"]
NoResult == OmOffsetSize_new(0, 0)
NoArgs == [none |-> TRUE]
NoPyReader == [state |-> "none"]

\* the state after OmFileWriter::new, for a session of at most limit records
SessionStart(limit) ==
    /\ \E capacity \in InitialCapacities :
         /\ buffer = OmBufferedWriter_new(capacity).buffer
         /\ initial_capacity = capacity
    /\ write_position = 0
    /\ total_bytes_written = 0
    /\ backend = <<>>
    /\ sync_calls = 0
    /\ array_writer = NoArray
    /\ finalized = NoArray
    /\ written = <<>>
    /\ hist = [records |-> 0, trailers |-> 0, arrays |-> 0,
               header_offsets |-> <<>>, first_op |-> "none", record_bytes |-> <<>>,
               trailer_end |-> 0, trailer_root |-> NoResult,
               lut |-> <<>>, chunks_written |-> 0, array |-> NoArray,
               panicked |-> FALSE, damage |-> "none", rejected |-> 0,
               limit |-> limit, record_args |-> <<>>]
    /\ last = [op |-> "none", err |-> Ok, result |-> NoResult, before |-> 0,
               pre |-> [flushed |-> 0, chunk_index |-> 0, look_up_table |-> <<>>],
               args |-> NoArgs]
    /\ reader = NoReader
    /\ read_result = NoRead
    /\ tree = VariableTree_new
    /\ py = NoPyReader

Init == SessionStart(MaxRecords)

\* a session that may write a hierarchy of MaxNodes records
InitMeta == SessionStart(MaxNodes)

WriterUsable == reader = NoReader /\ ~hist.panicked

\* what a writer call finds: the bytes the backend holds and the array writer's progress
Pre == [flushed |-> Len(backend),
        chunk_index |-> IF array_writer = NoArray THEN 0 ELSE array_writer.chunk_index,
        look_up_table |-> IF array_writer = NoArray THEN <<>> ELSE array_writer.look_up_table]

\* the buffered writer becomes b2
SetBufferedWriter(b2) ==
    /\ buffer' = b2.buffer
    /\ write_position' = b2.write_position
    /\ total_bytes_written' = b2.total_bytes_written
    /\ backend' = b2.backend
    /\ UNCHANGED initial_capacity

\* history common to the operations that start with write_header_if_required
Started(op) ==
    [hist EXCEPT !.first_op = IF hist.first_op = "none" THEN op ELSE @,
                 !.header_offsets =
                     IF write_header_if_required(BufferedWriter) # BufferedWriter
                     THEN Append(@, total_bytes_written) ELSE @]

WriteScalar(scalar, children) ==
    /\ WriterUsable /\ array_writer = NoArray
    /\ hist.records < hist.limit
    /\ \E r \in {write_scalar(BufferedWriter, scalar[1], scalar[2], scalar[3], children)} :
         /\ SetBufferedWriter(r.b)
         /\ written' = Append(written, r.result)
         /\ hist' = [Started("write_scalar") EXCEPT
                        !.records = @ + 1,
                        !.record_bytes = Append(@, ScalarRecordBytes(scalar[1], scalar[2],
                                                                     scalar[3], children)),
                        !.record_args = Append(@, [op |-> "write_scalar", name |-> scalar[3],
                                                   children |-> children,
                                                   data_type |-> scalar[1],
                                                   value |-> scalar[2]])]
         /\ last' = [op |-> "write_scalar", err |-> Ok, result |-> r.result,
                     before |-> total_bytes_written, pre |-> Pre, args |-> NoArgs]
    /\ UNCHANGED <<sync_calls, array_writer, finalized, reader, read_result,
                   tree, py>>

PrepareArray(dimensions, chunk_dimensions) ==
    /\ WriterUsable /\ array_writer = NoArray
    /\ hist.arrays = 0
    /\ \E h \in {write_header_if_required(BufferedWriter)},
          r \in {OmFileWriterArray_new(dimensions, chunk_dimensions)} :
         /\ SetBufferedWriter(h)
         /\ array_writer' = r.aw
         /\ hist' = [Started("prepare_array") EXCEPT
                        !.arrays = IF r.err = Ok THEN @ + 1 ELSE @]
         /\ last' = [op |-> "prepare_array", err |-> r.err, result |-> NoResult,
                     before |-> total_bytes_written, pre |-> Pre,
                     args |-> [dimensions |-> dimensions,
                               chunk_dimensions |-> chunk_dimensions]]
    /\ UNCHANGED <<sync_calls, finalized, written, reader, read_result,
                   tree, py>>

\* the arguments of a write_data_flat call: the number of values supplied,
\* array_dimensions, array_offset and array_count
Rectangle(length, dimensions, offset, count) ==
    [length |-> length, dimensions |-> dimensions, offset |-> offset, count |-> count]

\* the source rectangles a caller passes to write_data: the whole array, or the
\* rectangle of the next chunk
WriteRectangles(aw) ==
    IF aw = NoArray THEN {} ELSE
    {Rectangle(Product(aw.dimensions), aw.dimensions,
               [i \in 1..Len(aw.dimensions) |-> 0], aw.dimensions)}
    \cup {Rectangle(Product(aw.dimensions), aw.dimensions,
                    [i \in 1..Len(aw.dimensions) |->
                        ChunkCoordinate(aw.dimensions, aw.chunks, aw.chunk_index, i)
                        * aw.chunks[i]],
                    ChunkShape(aw.dimensions, aw.chunks, aw.chunk_index))}

WriteData(rectangle, garbage, overflow_checks) ==
    /\ WriterUsable /\ array_writer # NoArray
    /\ \E r \in {write_data_flat(array_writer, BufferedWriter,
                                   SourceArray(<<rectangle.length>>),
                                   rectangle.dimensions,
                                   rectangle.offset, rectangle.count, garbage,
                                   overflow_checks)} :
         /\ (r.err.kind \notin {"ok", "panic"}) => hist.rejected < MaxRejected
         /\ SetBufferedWriter(r.b)
         /\ array_writer' = r.aw
         /\ hist' = [hist EXCEPT !.panicked = (r.err.kind = "panic"),
                                 !.rejected = IF r.err.kind \in {"ok", "panic"}
                                              THEN @ ELSE @ + 1]
         /\ last' = [op |-> "write_data", err |-> r.err, result |-> NoResult,
                     before |-> total_bytes_written, pre |-> Pre, args |-> rectangle]
    /\ UNCHANGED <<sync_calls, finalized, written, reader, read_result,
                   tree, py>>

\* the arrays a caller feeds after the chunks written so far (test_write_chunks):
\* the next n chunks in row-major chunk order, where these form a rectangle of
\* the array of rank two: they lie in one row of chunks, or they are whole rows
\* of chunks.  offset is the place of the rectangle in the caller's data, count
\* its shape
ChunkBlocks(aw) ==
    IF aw = NoArray \/ Len(aw.dimensions) # 2 THEN {} ELSE
    LET at(k, i) == ChunkCoordinate(aw.dimensions, aw.chunks, k, i)
        first == aw.chunk_index
    IN {[offset |-> [i \in 1..2 |-> at(first, i) * aw.chunks[i]],
         count |-> [i \in 1..2 |->
                      Min((at(first + n - 1, i) + 1) * aw.chunks[i], aw.dimensions[i])
                      - at(first, i) * aw.chunks[i]]] :
          n \in {m \in 1..(om_encoder_count_chunks(aw.dimensions, aw.chunks) - first) :
                   \/ at(first, 1) = at(first + m - 1, 1)
                   \/ /\ at(first, 2) = 0
                      /\ at(first + m - 1, 2) = ChunksInDim(aw.dimensions, aw.chunks, 2) - 1}}

\* the part of the caller's data a block holds, as an array of its own
BlockOf(dimensions, block) ==
    [e \in 1..Product(block.count) |->
        SourceArray(dimensions)[
            Linear(dimensions, [i \in 1..Len(dimensions) |->
                                  block.offset[i] + Coordinates(block.count, e - 1)[i]]) + 1]]

\* write_data with an array that holds whole chunks, array_offset and
\* array_count None
WriteChunks(block, overflow_checks) ==
    /\ WriterUsable /\ array_writer # NoArray
    /\ \E r \in {write_data_flat(array_writer, BufferedWriter,
                                   BlockOf(array_writer.dimensions, block), block.count,
                                   [i \in 1..Len(block.count) |-> 0], block.count, 0,
                                   overflow_checks)} :
         /\ (r.err.kind \notin {"ok", "panic"}) => hist.rejected < MaxRejected
         /\ SetBufferedWriter(r.b)
         /\ array_writer' = r.aw
         /\ hist' = [hist EXCEPT !.panicked = (r.err.kind = "panic"),
                                 !.rejected = IF r.err.kind \in {"ok", "panic"}
                                              THEN @ ELSE @ + 1]
         /\ last' = [op |-> "write_chunks", err |-> r.err, result |-> NoResult,
                     before |-> total_bytes_written, pre |-> Pre, args |-> block]
    /\ UNCHANGED <<sync_calls, finalized, written, reader, read_result,
                   tree, py>>

Finalize ==
    /\ WriterUsable /\ array_writer # NoArray
    /\ \E r \in {finalize(array_writer, BufferedWriter)} :
         /\ SetBufferedWriter(r.b)
         /\ finalized' = r.array
         /\ hist' = [hist EXCEPT !.lut = array_writer.look_up_table,
                                 !.chunks_written = array_writer.chunk_index,
                                 !.array = r.array]
         /\ last' = [op |-> "finalize", err |-> Ok, result |-> NoResult,
                     before |-> total_bytes_written, pre |-> Pre, args |-> NoArgs]
    /\ array_writer' = NoArray
    /\ UNCHANGED <<sync_calls, written, reader, read_result,
                   tree, py>>

WriteArray(name, children) ==
    /\ WriterUsable /\ array_writer = NoArray /\ finalized # NoArray
    /\ hist.records < hist.limit
    /\ \E r \in {write_array(BufferedWriter, finalized, name, children)} :
         /\ SetBufferedWriter(r.b)
         /\ written' = Append(written, r.result)
         /\ hist' = [Started("write_array") EXCEPT
                        !.records = @ + 1,
                        !.record_bytes = Append(@, ArrayRecordBytes(finalized, name, children)),
                        !.record_args = Append(@, [op |-> "write_array", name |-> name,
                                                   children |-> children,
                                                   data_type |-> finalized.data_type,
                                                   value |-> 0])]
         /\ last' = [op |-> "write_array", err |-> Ok, result |-> r.result,
                     before |-> total_bytes_written, pre |-> Pre, args |-> NoArgs]
    /\ finalized' = NoArray
    /\ UNCHANGED <<sync_calls, array_writer, reader, read_result,
                   tree, py>>

WriteTrailer(root_variable) ==
    /\ WriterUsable /\ array_writer = NoArray
    /\ hist.trailers < MaxTrailers
    /\ \E b2 \in {write_trailer(BufferedWriter, root_variable)} :
         /\ SetBufferedWriter(b2)
         /\ hist' = [Started("write_trailer") EXCEPT
                        !.trailers = @ + 1,
                        !.trailer_end = b2.total_bytes_written,
                        !.trailer_root = root_variable]
         /\ last' = [op |-> "write_trailer", err |-> Ok, result |-> NoResult,
                     before |-> total_bytes_written, pre |-> Pre, args |-> NoArgs]
    /\ UNCHANGED <<sync_calls, array_writer, finalized, written, reader, read_result,
                   tree, py>>

\* a caller of the buffered writer asks for room: reallocate on the writer as it
\* stands; `last` keeps the buffer, the position and the request
Reallocate(minimum_capacity) ==
    /\ WriterUsable /\ array_writer = NoArray
    /\ \E b2 \in {reallocate(BufferedWriter, minimum_capacity)} :
         /\ SetBufferedWriter(b2)
         /\ last' = [op |-> "reallocate", err |-> Ok, result |-> NoResult,
                     before |-> total_bytes_written, pre |-> Pre,
                     args |-> [minimum_capacity |-> minimum_capacity, buffer |-> buffer,
                               write_position |-> write_position]]
    /\ UNCHANGED <<sync_calls, array_writer, finalized, written, hist, reader, read_result,
                   tree, py>>

\* the names of the variables of a tree
TreeNames == {"a", "b", "c"}

\* the variable a caller adds under a name: a finalized array under "a", a
\* scalar with its write closure under the other names
TreeVariable(name) ==
    IF name = "a"
    THEN [kind |-> "Array",
          array |-> [data_type |-> DataType_Uint8Array,
                     compression |-> CompressionType_PforDelta2d,
                     dimensions |-> <<2, 2>>, chunks |-> <<1, 2>>,
                     lut_size |-> 6, lut_offset |-> 7]]
    ELSE [kind |-> "Scalar", data_type |-> DataType_Int8, value |-> 7]

\* the children lists a caller passes to set_children
TreeChildren ==
    {<<>>} \cup {<<x>> : x \in TreeNames}
    \cup {<<"a", "b">>, <<"c", "b">>, <<"c", "a">>}

\* the orders in which a HashMap may yield its keys
KeyOrders(map) ==
    {keys \in [1..Cardinality(DOMAIN map) -> DOMAIN map] :
        \A i, j \in 1..Cardinality(DOMAIN map) : keys[i] = keys[j] => i = j}

\* a call on the tree as `last` records it
TreeCall(op, err, result, args) ==
    [op |-> op, err |-> Err(err), result |-> result, before |-> total_bytes_written,
     pre |-> Pre, args |-> args]

AddNode(name, variable) ==
    /\ \E r \in {add_node(tree, name, variable)} :
         /\ tree' = r.tree
         /\ last' = TreeCall("add_node", r.err, NoResult,
                             [name |-> name,
                              parents |-> IF name \in DOMAIN tree.pending_parents
                                          THEN tree.pending_parents[name] ELSE {}])
    /\ UNCHANGED <<buffer, write_position, total_bytes_written, initial_capacity, backend,
                   sync_calls, array_writer, finalized, written, hist, reader, read_result, py>>

SetChildren(parent_name, children) ==
    /\ \E r \in {set_children(tree, parent_name, children)} :
         /\ tree' = r.tree
         /\ last' = TreeCall("set_children", r.err, NoResult, NoArgs)
    /\ UNCHANGED <<buffer, write_position, total_bytes_written, initial_capacity, backend,
                   sync_calls, array_writer, finalized, written, hist, reader, read_result, py>>

ValidateTree(keys) ==
    /\ last' = TreeCall("validate_tree", validate_tree(tree, keys), NoResult, NoArgs)
    /\ UNCHANGED <<buffer, write_position, total_bytes_written, initial_capacity, backend,
                   sync_calls, array_writer, finalized, written, hist, reader, read_result,
                   tree, py>>

WriteVariables(keys) ==
    /\ WriterUsable /\ array_writer = NoArray
    /\ \E r \in {write_variables(tree, BufferedWriter, keys)} :
         /\ SetBufferedWriter(r.b)
         /\ tree' = r.tree
         /\ written' = written \o [i \in 1..Len(r.write_order) |->
                                     IF r.write_order[i] \in DOMAIN r.offset_sizes
                                     THEN r.offset_sizes[r.write_order[i]] ELSE NoResult]
         /\ hist' = IF r.b = BufferedWriter THEN hist
                    ELSE [Started("write_variables") EXCEPT
                             !.records = @ + Cardinality(DOMAIN r.offset_sizes)]
         /\ last' = TreeCall("write_variables", r.err, r.result,
                             [tree |-> tree, write_order |-> r.write_order,
                              offset_sizes |-> r.offset_sizes])
    /\ UNCHANGED <<sync_calls, array_writer, finalized, reader, read_result, py>>

\* the roots a caller passes to write_trailer: a record it has written, or
\* (0, 0) when it has written none
Roots == IF written = <<>> THEN {NoResult} ELSE {written[i] : i \in 1..Len(written)}

-----------------------------------------------------------------------------
(* Reader backends, records [kind, data]:
     "get_bytes"        InMemoryBackend, MmapFile: get_bytes indexes the data
                        and panics beyond its end, get_bytes_owned is the
                        default of the trait
     "get_bytes_owned"  FsSpecBackend: get_bytes_owned seeks and reads,
                        get_bytes is the default of the trait
     "failing"          FsSpecBackend whose file object raises: the failure is
                        mapped to DecoderError
     "neither"          both methods are the defaults of the trait
   A fetch returns [kind, data, calls]; calls lists the backend methods it
   called, each with its arguments and its outcome *)

BackendKinds == {"get_bytes", "get_bytes_owned", "failing", "neither"}

ReaderBackend(kind, data) == [kind |-> kind, data |-> data]

Bytes(kind, data) == [kind |-> kind, data |-> data]

Call(method, offset, count, result) == [method |-> method, offset |-> offset, count |-> count, result |-> result]

get_bytes_owned(b, offset, count) ==
    IF b.kind = "get_bytes_owned"
    THEN Bytes("ok", SubSeq(b.data, offset + 1, Min(offset + count, Len(b.data))))
    ELSE IF b.kind = "failing" THEN Bytes("DecoderError", <<>>)
    ELSE Bytes("NotImplementedError", <<>>)

get_bytes(b, offset, count) ==
    IF b.kind # "get_bytes" THEN Bytes("NotImplementedError", <<>>)
    ELSE IF offset + count > Len(b.data) THEN Bytes("panic", <<>>)
    ELSE Bytes("ok", SubSeq(b.data, offset + 1, offset + count))

\* forward_unimplemented_error: the fallback runs for NotImplementedError only
forward_unimplemented_error(e, fallback) == IF e.kind = "NotImplementedError" THEN fallback ELSE e

\* a fetch that asks get_bytes whenever get_bytes_owned gave no bytes
FetchBytes_always_falls_back(b, offset, count) ==
    LET owned == get_bytes_owned(b, offset, count)
        borrowed == get_bytes(b, offset, count)
    IN IF owned.kind = "ok"
       THEN [kind |-> "ok", data |-> owned.data,
             calls |-> <<Call("get_bytes_owned", offset, count, "ok")>>]
       ELSE [kind |-> borrowed.kind, data |-> borrowed.data,
             calls |-> <<Call("get_bytes_owned", offset, count, owned.kind),
                         Call("get_bytes", offset, count, borrowed.kind)>>]

\* the fetch written out at every site: owned bytes if the backend has them,
\* else forward_unimplemented_error with get_bytes as the fallback
FetchBytes(b, offset, count) ==
    LET owned == get_bytes_owned(b, offset, count)
        borrowed == get_bytes(b, offset, count)
        r == forward_unimplemented_error(owned, borrowed)
    IN IF owned.kind = "ok"
       THEN [kind |-> "ok", data |-> owned.data,
             calls |-> <<Call("get_bytes_owned", offset, count, "ok")>>]
       ELSE [kind |-> r.kind, data |-> r.data,
             calls |-> <<Call("get_bytes_owned", offset, count, owned.kind)>>
                       \o (IF owned.kind = "NotImplementedError"
                           THEN <<Call("get_bytes", offset, count, borrowed.kind)>>
                           ELSE <<>>)]

-----------------------------------------------------------------------------
(* Parsing done by the format library *)

\* om_header_type
om_header_type(header_data) ==
    IF header_data[1] # 79 \/ header_data[2] # 77 THEN "OM_HEADER_INVALID"
    ELSE IF header_data[3] \in {1, 2} THEN "OM_HEADER_LEGACY"
    ELSE IF header_data[3] = 3 THEN "OM_HEADER_READ_TRAILER"
    ELSE "OM_HEADER_INVALID"

\* om_trailer_read
om_trailer_read(trailer) ==
    IF trailer[1] # 79 \/ trailer[2] # 77 \/ trailer[3] # 3
    THEN [ok |-> FALSE, offset |-> 0, size |-> 0]
    ELSE [ok |-> TRUE, offset |-> FromLE(SubSeq(trailer, 9, 16)),
          size |-> FromLE(SubSeq(trailer, 17, 24))]

-----------------------------------------------------------------------------
(* OmFileReader *)

ReaderResult(state, err, has_offset_size, offset_size, variable_data, kind, calls) ==
    [state |-> state, err |-> err, has_offset_size |-> has_offset_size,
     offset_size |-> offset_size, variable_data |-> variable_data,
     backend |-> kind, calls |-> calls]

\* Err(e) of a reader constructor; a panic of the backend unwinds through it
ReaderErr(kind, b, calls) ==
    ReaderResult(IF kind = "panic" THEN "panic" ELSE "err", kind, FALSE, NoResult, <<>>, b.kind, calls)

OmFileReader_new(b) ==
    LET header == FetchBytes(b, 0, HeaderReadSize) IN
    IF header.kind # "ok" THEN ReaderErr(header.kind, b, header.calls)
    ELSE IF om_header_type(header.data) = "OM_HEADER_LEGACY"
    THEN ReaderResult("ok", "ok", FALSE, NoResult, header.data, b.kind, header.calls)
    ELSE IF om_header_type(header.data) = "OM_HEADER_READ_TRAILER"
    THEN LET file_size == Len(b.data)
             trailer_offset == file_size - TrailerSize
             this_trailer == FetchBytes(b, trailer_offset, TrailerSize)
             calls2 == header.calls \o this_trailer.calls
         IN IF trailer_offset < 0 THEN ReaderErr("panic", b, header.calls)
            ELSE IF this_trailer.kind # "ok" THEN ReaderErr(this_trailer.kind, b, calls2)
            ELSE LET t == om_trailer_read(this_trailer.data) IN
                 IF ~t.ok THEN ReaderErr("NotAnOmFile", b, calls2)
                 ELSE LET variable_data == FetchBytes(b, t.offset, t.size) IN
                      IF variable_data.kind # "ok"
                      THEN ReaderErr(variable_data.kind, b, calls2 \o variable_data.calls)
                      ELSE ReaderResult("ok", "ok", TRUE,
                                        OmOffsetSize_new(t.offset, t.size),
                                        variable_data.data, b.kind,
                                        calls2 \o variable_data.calls)
    ELSE ReaderErr("NotAnOmFile", b, header.calls)

\* the bytes a reader is opened on: the backend content as it is, or with
\* the magic, the version or the trailer damaged
Damages == {"none", "magic", "version", "trailer"}

Damaged(data, damage) ==
    [i \in 1..Len(data) |->
        IF damage = "magic" /\ i = 1 THEN 0
        ELSE IF damage = "version" /\ i = 3 THEN 9
        ELSE IF damage = "trailer" /\ i = Len(data) - TrailerSize + 1 THEN 0
        ELSE data[i]]

OpenReader(kind, damage) ==
    /\ reader = NoReader
    /\ reader' = OmFileReader_new(ReaderBackend(kind, Damaged(backend, damage)))
    /\ hist' = [hist EXCEPT !.damage = damage]
    /\ UNCHANGED <<buffer, write_position, total_bytes_written, initial_capacity, backend,
                   sync_calls, array_writer, finalized, written, last, read_result,
                   tree, py>>

-----------------------------------------------------------------------------
(* Accessors of a variable record (format library) *)

om_variable_get_type(variable_data) == variable_data[1]

om_variable_get_children_count(variable_data) == FromLE(SubSeq(variable_data, 5, 8))

lut_size_of(variable_data) == FromLE(SubSeq(variable_data, 9, 16))

lut_offset_of(variable_data) == FromLE(SubSeq(variable_data, 17, 24))

dimension_count_of(variable_data) == FromLE(SubSeq(variable_data, 25, 32))

\* om_variable_get_dimensions
get_dimensions(variable_data) ==
    LET base == ArrayBaseSize + 16 * om_variable_get_children_count(variable_data)
    IN [i \in 1..dimension_count_of(variable_data) |->
          FromLE(SubSeq(variable_data, base + 8 * (i - 1) + 1, base + 8 * i))]

\* om_variable_get_chunks
get_chunk_dimensions(variable_data) ==
    LET base == ArrayBaseSize + 16 * om_variable_get_children_count(variable_data)
                + 8 * dimension_count_of(variable_data)
    IN [i \in 1..dimension_count_of(variable_data) |->
          FromLE(SubSeq(variable_data, base + 8 * (i - 1) + 1, base + 8 * i))]

\* om_variable_get_children for one child: the size and the offset of child
\* index (from 0), found after the fixed part of the record
om_variable_get_children(variable_data, index) ==
    LET count == om_variable_get_children_count(variable_data)
        base == IF is_scalar(om_variable_get_type(variable_data)) THEN ScalarBaseSize
                ELSE ArrayBaseSize
    IN IF index >= count THEN [found |-> FALSE, offset |-> 0, size |-> 0]
       ELSE [found |-> TRUE,
             size |-> FromLE(SubSeq(variable_data, base + 8 * index + 1, base + 8 * index + 8)),
             offset |-> FromLE(SubSeq(variable_data, base + 8 * count + 8 * index + 1,
                                      base + 8 * count + 8 * index + 8))]

init_child_from_offset_size(b, offset_size) ==
    LET child_variable == FetchBytes(b, offset_size.offset, offset_size.size) IN
    IF child_variable.kind # "ok" THEN ReaderErr(child_variable.kind, b, child_variable.calls)
    ELSE ReaderResult("ok", "ok", TRUE, offset_size, child_variable.data, b.kind,
                      child_variable.calls)

\* get_child that does not look at what om_variable_get_children answers
get_child_unchecked(b, variable_data, index) ==
    LET c == om_variable_get_children(variable_data, index)
        child == init_child_from_offset_size(b, OmOffsetSize_new(c.offset, c.size))
    IN IF child.state # "ok"
       THEN ReaderResult("panic", child.err, FALSE, NoResult, <<>>, b.kind, child.calls)
       ELSE child

\* get_child: None without a child of that index; `expect` panics when the
\* child cannot be fetched
get_child(b, variable_data, index) ==
    LET c == om_variable_get_children(variable_data, index)
        child == init_child_from_offset_size(b, OmOffsetSize_new(c.offset, c.size))
    IN IF ~c.found THEN ReaderResult("None", "ok", FALSE, NoResult, <<>>, b.kind, <<>>)
       ELSE IF child.state # "ok"
       THEN ReaderResult("panic", child.err, FALSE, NoResult, <<>>, b.kind, child.calls)
       ELSE child

-----------------------------------------------------------------------------
(* The decoder of the format library *)

\* inverse of om_encoder_compress_lut: entry k (from 0) of the lookup table
RECURSIVE LutEntry(_, _)
LutEntry(lut_bytes, k) ==
    IF k = 0 THEN FromLE(SubSeq(lut_bytes, 1, 2))
    ELSE (LutEntry(lut_bytes, k - 1) + FromLE(SubSeq(lut_bytes, 2 * k + 1, 2 * k + 2))) % 65536

\* index of the chunk that holds the element at the given coordinates
ChunkIndexOf(dimensions, chunks, coords) ==
    Linear([i \in 1..Len(dimensions) |-> ChunksInDim(dimensions, chunks, i)],
           [i \in 1..Len(dimensions) |-> coords[i] \div chunks[i]])

\* the chunks that intersect the rectangle [read_offset, read_offset + read_count)
ChunksToRead(dimensions, chunks, read_offset, read_count) ==
    {ChunkIndexOf(dimensions, chunks,
                  [i \in 1..Len(dimensions) |-> read_offset[i] + Coordinates(read_count, e)[i]]) :
        e \in 0..(Product(read_count) - 1)}

\* the elements of a set of numbers in ascending order
RECURSIVE Ascending(_)
Ascending(S) ==
    IF S = {} THEN <<>>
    ELSE LET m == CHOOSE x \in S : \A y \in S : x <= y IN <<m>> \o Ascending(S \ {m})

\* om_decoder_init: the decoder holds the variable's shape, the place of its
\* lookup table, the slice, the destination and the two I/O sizes; needed lists
\* the chunks that intersect the slice.  A slice that leaves the array on some
\* axis is refused with an error code
om_decoder_init(variable_data, read_offset, read_count, into_cube_offset, into_cube_dimension, io_size_merge, io_size_max) ==
    IF \E i \in 1..Len(read_offset) :
          read_offset[i] + read_count[i] > get_dimensions(variable_data)[i]
    THEN [error |-> "ERROR_INVALID_READ_COUNT"]
    ELSE
    [error |-> "ERROR_OK",
     dimensions |-> get_dimensions(variable_data),
     chunks |-> get_chunk_dimensions(variable_data),
     lut_offset |-> lut_offset_of(variable_data),
     lut_size |-> lut_size_of(variable_data),
     read_offset |-> read_offset, read_count |-> read_count,
     into_cube_offset |-> into_cube_offset, into_cube_dimension |-> into_cube_dimension,
     io_size_merge |-> io_size_merge, io_size_max |-> io_size_max,
     needed |-> Ascending(ChunksToRead(get_dimensions(variable_data),
                                       get_chunk_dimensions(variable_data),
                                       read_offset, read_count))]

\* om_decoder_init_index_read: nothing read yet; next is the position in
\* needed of the first chunk no index read has covered
om_decoder_init_index_read(decoder) == [offset |-> 0, count |-> 0, lower |-> 1, upper |-> 0, next |-> 1]

\* om_decoder_next_index_read.  An array of fewer than 256 chunks has its whole
\* lookup table in one LUT chunk, which is never split: one index read fetches
\* it and covers every needed chunk
om_decoder_next_index_read(decoder, index_read) ==
    IF index_read.next > Len(decoder.needed) THEN [more |-> FALSE, index_read |-> index_read]
    ELSE [more |-> TRUE,
          index_read |-> [offset |-> decoder.lut_offset, count |-> decoder.lut_size,
                          lower |-> index_read.next, upper |-> Len(decoder.needed),
                          next |-> Len(decoder.needed) + 1]]

\* om_decoder_init_data_read: the data reads of an index read cover the
\* chunks that index read covers
om_decoder_init_data_read(index_read) ==
    [offset |-> 0, count |-> 0, lower |-> index_read.lower, upper |-> index_read.lower - 1,
     next |-> index_read.lower, limit |-> index_read.upper]

\* the run of needed chunks read together, from the chunk at position pos on:
\* the next needed chunk joins while the gap before it is at most io_size_merge
\* and the read stays within io_size_max
RECURSIVE ExtendDataRead(_, _, _, _, _, _)
ExtendDataRead(decoder, index_data, limit, startPos, endPos, pos) ==
    IF pos + 1 > limit THEN [upper |-> pos, endPos |-> endPos]
    ELSE LET dataStartPos == LutEntry(index_data, decoder.needed[pos + 1])
             dataEndPos == LutEntry(index_data, decoder.needed[pos + 1] + 1)
         IN IF \/ dataEndPos - startPos > decoder.io_size_max
               \/ dataStartPos - endPos > decoder.io_size_merge
            THEN [upper |-> pos, endPos |-> endPos]
            ELSE ExtendDataRead(decoder, index_data, limit, startPos, dataEndPos, pos + 1)

\* om_decoder_next_data_read: the next data read starts with the first needed
\* chunk not read yet, however long that chunk is
om_decoder_next_data_read(decoder, data_read, index_data) ==
    IF data_read.next > data_read.limit THEN [more |-> FALSE, data_read |-> data_read]
    ELSE LET c == decoder.needed[data_read.next]
             startPos == LutEntry(index_data, c)
             first_end == LutEntry(index_data, c + 1)
             run == ExtendDataRead(decoder, index_data, data_read.limit, startPos,
                                   first_end, data_read.next)
         IN [more |-> TRUE,
             data_read |-> [offset |-> startPos,
                            count |-> IF run.endPos >= startPos THEN run.endPos - startPos
                                      ELSE Huge,
                            lower |-> data_read.next, upper |-> run.upper,
                            next |-> run.upper + 1, limit |-> data_read.limit]]

\* chunk indices of a data read, first to last
ChunksOf(decoder, data_read) == decoder.needed[data_read.lower]..decoder.needed[data_read.upper]

\* om_decoder_decode_chunks: every chunk of the data read, in ascending order,
\* is located in the fetched bytes by its lookup table entries and decoded, and
\* each element of the slice it holds goes to its cell of the destination: cell
\* (c - read_offset + into_cube_offset) of a cube of shape into_cube_dimension
om_decoder_decode_chunks(decoder, data_read, data_data, index_data, into) ==
    LET dimensions == decoder.dimensions
        chunks == decoder.chunks
        lut(k) == LutEntry(index_data, k)
        chunk_bytes(c) == SubSeq(data_data, lut(c) - data_read.offset + 1,
                                 lut(c + 1) - data_read.offset)
        \* value of the element at coordinates g of the array
        element(g) ==
            LET c == ChunkIndexOf(dimensions, chunks, g)
                origin == [i \in 1..Len(dimensions) |->
                             ChunkCoordinate(dimensions, chunks, c, i) * chunks[i]]
                local == [i \in 1..Len(dimensions) |-> g[i] - origin[i]]
            IN chunk_bytes(c)[Linear(ChunkShape(dimensions, chunks, c), local) + 1]
        \* array coordinates held by destination cell p (from 1), if any
        source(p) == [i \in 1..Len(dimensions) |->
                        Coordinates(decoder.into_cube_dimension, p - 1)[i]
                        - decoder.into_cube_offset[i] + decoder.read_offset[i]]
        filled(p) == /\ \A i \in 1..Len(dimensions) :
                          /\ source(p)[i] >= decoder.read_offset[i]
                          /\ source(p)[i] < decoder.read_offset[i] + decoder.read_count[i]
                     /\ ChunkIndexOf(dimensions, chunks, source(p)) \in ChunksOf(decoder, data_read)
    IN IF \E c \in ChunksOf(decoder, data_read) :
             Len(chunk_bytes(c)) # Product(ChunkShape(dimensions, chunks, c))
       THEN [ok |-> FALSE, into |-> into, decoded |-> <<>>]
       ELSE [ok |-> TRUE,
             into |-> [p \in 1..Len(into) |-> IF filled(p) THEN element(source(p)) ELSE into[p]],
             decoded |-> Ascending(ChunksOf(decoder, data_read))]

-----------------------------------------------------------------------------
(* OmFileReaderBackend::decode, one step at a time.  A run is a record
     state       "Start", then the step the loop has completed last:
                 "NextIndexRead" (an index read was produced and fetched),
                 "NextDataRead" (a data read was produced and fetched),
                 "DecodeChunk" (the chunks of the data read were decoded),
                 and "Done", "err" or "panic" when decode has returned
     err         Ok or the error returned
     into        the destination
     calls       the backend methods called so far
     reads       the index and data reads produced so far
     decoded     the chunks decoded so far
   with the decoder and the index and data read in progress *)

NewRun(decoder, into) ==
    [state |-> "Start", err |-> Ok, into |-> into, decoder |-> decoder,
     index_read |-> om_decoder_init_index_read(decoder), index_data |-> <<>>,
     data_read |-> om_decoder_init_data_read(om_decoder_init_index_read(decoder)),
     data_data |-> <<>>, calls |-> <<>>, reads |-> <<>>, decoded |-> <<>>]

\* a run that ended before or instead of decoding
EndedRun(state, err, into) ==
    [state |-> state, err |-> err, into |-> into, decoder |-> NoArgs,
     index_read |-> NoArgs, index_data |-> <<>>, data_read |-> NoArgs,
     data_data |-> <<>>, calls |-> <<>>, reads |-> <<>>, decoded |-> <<>>]

\* an index or data read as the decoder has produced it
IssuedRead(kind, r) == [kind |-> kind, offset |-> r.offset, count |-> r.count, lower |-> r.lower, upper |-> r.upper]

Ended(run) == run.state \in {"Done", "err", "panic"}

\* a fetch of decode failed: `?` returns the error, a panic unwinds
FetchFailed(run, fetched) ==
    [run EXCEPT !.state = IF fetched.kind = "panic" THEN "panic" ELSE "err",
                !.err = Err(fetched.kind),
                !.calls = @ \o fetched.calls]

\* the head of the outer loop: the next index read, fetched, or the end
NextIndexReadStep(b, run) ==
    LET n == om_decoder_next_index_read(run.decoder, run.index_read)
        index_data == FetchBytes(b, n.index_read.offset, n.index_read.count)
    IN IF ~n.more THEN [run EXCEPT !.state = "Done"]
       ELSE IF index_data.kind # "ok"
       THEN FetchFailed([run EXCEPT !.reads = Append(@, IssuedRead("index", n.index_read))],
                        index_data)
       ELSE [run EXCEPT !.state = "NextIndexRead",
                        !.reads = Append(@, IssuedRead("index", n.index_read)),
                        !.index_read = n.index_read,
                        !.index_data = index_data.data,
                        !.data_read = om_decoder_init_data_read(n.index_read),
                        !.calls = @ \o index_data.calls]

\* an inner loop that fetches for the first data read only and decodes the
\* later ones from the bytes it holds
NextDataReadStep_fetches_once(b, run) ==
    LET n == om_decoder_next_data_read(run.decoder, run.data_read, run.index_data)
        data_data == IF run.data_data = <<>>
                     THEN FetchBytes(b, n.data_read.offset, n.data_read.count)
                     ELSE [kind |-> "ok", data |-> run.data_data, calls |-> <<>>]
    IN IF ~n.more THEN NextIndexReadStep(b, run)
       ELSE IF data_data.kind # "ok"
       THEN FetchFailed([run EXCEPT !.reads = Append(@, IssuedRead("data", n.data_read))],
                        data_data)
       ELSE [run EXCEPT !.state = "NextDataRead",
                        !.reads = Append(@, IssuedRead("data", n.data_read)),
                        !.data_read = n.data_read,
                        !.data_data = data_data.data,
                        !.calls = @ \o data_data.calls]

\* the head of the inner loop: the next data read, fetched, or on to the outer loop
NextDataReadStep(b, run) ==
    LET n == om_decoder_next_data_read(run.decoder, run.data_read, run.index_data)
        data_data == FetchBytes(b, n.data_read.offset, n.data_read.count)
    IN IF ~n.more THEN NextIndexReadStep(b, run)
       ELSE IF data_data.kind # "ok"
       THEN FetchFailed([run EXCEPT !.reads = Append(@, IssuedRead("data", n.data_read))],
                        data_data)
       ELSE [run EXCEPT !.state = "NextDataRead",
                        !.reads = Append(@, IssuedRead("data", n.data_read)),
                        !.data_read = n.data_read,
                        !.data_data = data_data.data,
                        !.calls = @ \o data_data.calls]

\* the body of the inner loop after the fetch
DecodeChunkStep(run) ==
    LET r == om_decoder_decode_chunks(run.decoder, run.data_read, run.data_data,
                                      run.index_data, run.into)
    IN IF ~r.ok THEN [run EXCEPT !.state = "err", !.err = Err("DecoderError")]
       ELSE [run EXCEPT !.state = "DecodeChunk", !.into = r.into,
                        !.decoded = @ \o r.decoded]

\* a decode that leaves the inner loop after the first data read of an index read
decode_step_one_data_read(b, run) ==
    IF run.state = "Start" THEN NextIndexReadStep(b, run)
    ELSE IF run.state = "NextIndexRead" THEN NextDataReadStep(b, run)
    ELSE IF run.state = "NextDataRead" THEN DecodeChunkStep(run)
    ELSE IF run.state = "DecodeChunk" THEN NextIndexReadStep(b, run)
    ELSE run

decode_step(b, run) ==
    IF run.state = "Start" THEN NextIndexReadStep(b, run)
    ELSE IF run.state = "NextIndexRead" THEN NextDataReadStep(b, run)
    ELSE IF run.state = "NextDataRead" THEN DecodeChunkStep(run)
    ELSE IF run.state = "DecodeChunk" THEN NextDataReadStep(b, run)
    ELSE run

\* decode from the call to the return
RECURSIVE decode(_, _)
decode(b, run) == IF Ended(run) THEN run ELSE decode(b, decode_step(b, run))

-----------------------------------------------------------------------------
(* OmFileReader: reading *)

\* DataType::try_from
DataType_try_from(value) == [ok |-> value \in 0..22, value |-> value]

\* Option<u64>
None == [some |-> FALSE, value |-> 0]

Some(value) == [some |-> TRUE, value |-> value]

\* unwrap_or that drops the caller's value
unwrap_or_always_default(option, default) == default

\* Option::unwrap_or
unwrap_or(option, default) == IF option.some THEN option.value ELSE default

\* read_into that places the slice at the origin of the destination
read_into_start_at_origin(variable_data, into, dim_read, into_cube_offset, into_cube_dimension, io_size_max, io_size_merge, overflow_checks) ==
    IF ~DataType_try_from(om_variable_get_type(variable_data)).ok
    THEN EndedRun("panic", Err("panic"), into)
    ELSE IF om_variable_get_type(variable_data) # DataType_Uint8Array
    THEN EndedRun("err", Err("InvalidDataType"), into)
    ELSE IF \/ Len(get_dimensions(variable_data)) # Len(dim_read)
            \/ Len(dim_read) # Len(into_cube_offset)
            \/ Len(dim_read) # Len(into_cube_dimension)
    THEN EndedRun("err", Err("MismatchingCubeDimensionLength"), into)
    ELSE LET decoder == om_decoder_init(variable_data,
                                [i \in 1..Len(dim_read) |-> dim_read[i].start],
                                [i \in 1..Len(dim_read) |-> dim_read[i].end - dim_read[i].start],
                                [i \in 1..Len(dim_read) |-> 0],
                                into_cube_dimension, unwrap_or(io_size_merge, 512),
                                unwrap_or(io_size_max, 65536))
         IN IF decoder.error # "ERROR_OK" THEN EndedRun("err", Err("DecoderError"), into)
            ELSE NewRun(decoder, into)

\* read_into that leaves the comparison of the ranks to the decoder
read_into_start_rank_left_to_decoder(variable_data, into, dim_read, into_cube_offset, into_cube_dimension, io_size_max, io_size_merge, overflow_checks) ==
    IF ~DataType_try_from(om_variable_get_type(variable_data)).ok
    THEN EndedRun("panic", Err("panic"), into)
    ELSE IF om_variable_get_type(variable_data) # DataType_Uint8Array
    THEN EndedRun("err", Err("InvalidDataType"), into)
    ELSE IF \/ Len(get_dimensions(variable_data)) # Len(dim_read)
            \/ Len(dim_read) # Len(into_cube_offset)
            \/ Len(dim_read) # Len(into_cube_dimension)
    THEN EndedRun("err", Err("DecoderError"), into)
    ELSE IF overflow_checks /\ \E i \in 1..Len(dim_read) : dim_read[i].end < dim_read[i].start
    THEN EndedRun("panic", Err("panic"), into)
    ELSE LET decoder == om_decoder_init(variable_data,
                                [i \in 1..Len(dim_read) |-> dim_read[i].start],
                                [i \in 1..Len(dim_read) |-> dim_read[i].end - dim_read[i].start],
                                into_cube_offset, into_cube_dimension,
                                unwrap_or(io_size_merge, 512), unwrap_or(io_size_max, 65536))
         IN IF decoder.error # "ERROR_OK" THEN EndedRun("err", Err("DecoderError"), into)
            ELSE NewRun(decoder, into)

\* read_into up to the call of decode: the run decode starts with, or the run
\* that has ended with the error of a check or the panic of data_type()
read_into_start(variable_data, into, dim_read, into_cube_offset, into_cube_dimension, io_size_max, io_size_merge, overflow_checks) ==
    IF ~DataType_try_from(om_variable_get_type(variable_data)).ok
    THEN EndedRun("panic", Err("panic"), into)
    ELSE IF om_variable_get_type(variable_data) # DataType_Uint8Array
    THEN EndedRun("err", Err("InvalidDataType"), into)
    ELSE IF \/ Len(get_dimensions(variable_data)) # Len(dim_read)
            \/ Len(dim_read) # Len(into_cube_offset)
            \/ Len(dim_read) # Len(into_cube_dimension)
    THEN EndedRun("err", Err("MismatchingCubeDimensionLength"), into)
    ELSE IF overflow_checks /\ \E i \in 1..Len(dim_read) : dim_read[i].end < dim_read[i].start
    THEN EndedRun("panic", Err("panic"), into)
    ELSE LET read_offset == [i \in 1..Len(dim_read) |-> dim_read[i].start]
             read_count == [i \in 1..Len(dim_read) |-> dim_read[i].end - dim_read[i].start]
             decoder == om_decoder_init(variable_data, read_offset, read_count, into_cube_offset,
                                        into_cube_dimension, unwrap_or(io_size_merge, 512),
                                        unwrap_or(io_size_max, 65536))
         IN IF decoder.error # "ERROR_OK"
            THEN EndedRun("err", Err("DecoderError"), into)
            ELSE NewRun(decoder, into)

read_into(b, variable_data, into, dim_read, into_cube_offset, into_cube_dimension, io_size_max, io_size_merge, overflow_checks) ==
    decode(b, read_into_start(variable_data, into, dim_read, into_cube_offset,
                              into_cube_dimension, io_size_max, io_size_merge, overflow_checks))

\* the shape of the array read allocates: the lengths of the ranges; the
\* length of a range that ends before it starts is a u64 that has wrapped
out_dims_of(dim_read) == [i \in 1..Len(dim_read) |-> dim_read[i].end - dim_read[i].start]

\* read up to the call of decode.  With overflow checks `r.end - r.start`
\* panics for a range that ends before it starts; without them the length
\* wraps and ArrayD::zeros panics because the size of the shape overflows
read_start(variable_data, dim_read, io_size_max, io_size_merge, overflow_checks) ==
    IF \E i \in 1..Len(dim_read) : dim_read[i].end < dim_read[i].start
    THEN EndedRun("panic", Err("panic"), <<>>)
    ELSE read_into_start(variable_data, Zeros(Product(out_dims_of(dim_read))), dim_read,
                         [i \in 1..Len(dim_read) |-> 0], out_dims_of(dim_read),
                         io_size_max, io_size_merge, overflow_checks)

\* read that sizes the output by the range ends instead of the range lengths
read_sized_by_range_end(b, variable_data, dim_read, io_size_max, io_size_merge, overflow_checks) ==
    LET out_dims == [i \in 1..Len(dim_read) |-> dim_read[i].end]
        out == Zeros(Product(out_dims))
    IN read_into(b, variable_data, out, dim_read, [i \in 1..Len(dim_read) |-> 0], out_dims,
                 io_size_max, io_size_merge, overflow_checks)

read(b, variable_data, dim_read, io_size_max, io_size_merge, overflow_checks) ==
    decode(b, read_start(variable_data, dim_read, io_size_max, io_size_merge, overflow_checks))

\* the ranges a caller reads: every non-empty in-bounds rectangle of the stored array
ReadRanges(dimensions) ==
    {r \in [1..Len(dimensions) -> [start : 0..MaxDim, end : 1..MaxDim]] :
        \A i \in 1..Len(dimensions) : r[i].start < r[i].end /\ r[i].end <= dimensions[i]}

\* the reader can be asked for array data: it holds a complete array record
ReadableArray ==
    /\ reader.state = "ok"
    /\ Len(reader.variable_data) >= ArrayBaseSize
    /\ om_variable_get_type(reader.variable_data) = DataType_Uint8Array

Read(dim_read) ==
    /\ ReadableArray
    /\ read_result = NoRead
    /\ \E r \in {read(ReaderBackend(reader.backend, Damaged(backend, hist.damage)),
                      reader.variable_data, dim_read, None, None, FALSE)} :
         read_result' = [state |-> r.err.kind, values |-> r.into, dim_read |-> dim_read]
    /\ UNCHANGED <<buffer, write_position, total_bytes_written, initial_capacity, backend,
                   sync_calls, array_writer, finalized, written, hist, last, reader,
                   tree, py>>

\* om_variable_get_name: the name_length bytes that follow the children table
\* and the payload of the record
om_variable_get_name(variable_data) ==
    LET data_type == om_variable_get_type(variable_data)
        count == om_variable_get_children_count(variable_data)
        size == FromLE(SubSeq(variable_data, 3, 4))
        start == IF is_scalar(data_type)
                 THEN ScalarBaseSize + 16 * count + ScalarValueSize(data_type)
                 ELSE ArrayBaseSize + 16 * count + 16 * dimension_count_of(variable_data)
    IN [size |-> size, value |-> SubSeq(variable_data, start + 1, start + size)]

\* get_name: <<>> stands for None (a name of no bytes, or bytes that are not
\* UTF-8; a byte below 128 is a character of its own)
get_name(variable_data) ==
    LET name == om_variable_get_name(variable_data) IN
    IF name.size = 0 THEN <<>>
    ELSE IF \E i \in 1..name.size : name.value[i] >= 128 THEN <<>>
    ELSE name.value

\* om_variable_get_scalar: the value stored after the children table
om_variable_get_scalar(variable_data) ==
    LET data_type == om_variable_get_type(variable_data)
        start == ScalarBaseSize + 16 * om_variable_get_children_count(variable_data)
    IN FromLE(SubSeq(variable_data, start + 1, start + ScalarValueSize(data_type)))

\* read_scalar::<T> for the type T of tag data_type
read_scalar(data_type, variable_data) ==
    IF data_type # om_variable_get_type(variable_data) THEN None
    ELSE Some(om_variable_get_scalar(variable_data))

number_of_children(variable_data) == om_variable_get_children_count(variable_data)

\* join("/") of a path of names
RECURSIVE JoinPath(_)
JoinPath(path) ==
    IF path = <<>> THEN <<>>
    ELSE IF Len(path) = 1 THEN path[1]
    ELSE path[1] \o <<47>> \o JoinPath(Tail(path))

\* collect_variable_metadata and its loop over the children from child i on;
\* the result is [state, entries], state "panic" when get_child panicked
RECURSIVE collect_variable_metadata(_, _, _, _)
RECURSIVE CollectChildren(_, _, _, _, _)
collect_variable_metadata(b, self, current_path, result) ==
    LET name == get_name(self.variable_data)
        named == name # <<>> /\ self.has_offset_size
        path == IF named THEN Append(current_path, name) ELSE current_path
        is_scalar_ == is_scalar(om_variable_get_type(self.variable_data))
    IN CollectChildren(b, self, path,
                       [state |-> "ok",
                        entries |-> IF named
                                    THEN Put(result, JoinPath(path),
                                             [offset_size |-> self.offset_size,
                                              is_scalar |-> is_scalar_])
                                    ELSE result],
                       0)

CollectChildren(b, self, child_path, result, i) ==
    IF result.state # "ok" \/ i >= number_of_children(self.variable_data) THEN result
    ELSE LET child == get_child(b, self.variable_data, i) IN
         IF child.state = "panic" THEN [result EXCEPT !.state = "panic"]
         ELSE IF child.state = "None"
         THEN CollectChildren(b, self, child_path, result, i + 1)
         ELSE CollectChildren(b, self, child_path,
                              collect_variable_metadata(b, child, child_path, result.entries),
                              i + 1)

\* get_flat_variable_metadata that leaves out the variable it is called on
get_flat_variable_metadata_of_children(b, self) ==
    CollectChildren(b, self, <<>>, [state |-> "ok", entries |-> EmptyMap], 0)

get_flat_variable_metadata(b, self) == collect_variable_metadata(b, self, <<>>, EmptyMap)

\* the backend the reader holds, as it answers now
Backend == ReaderBackend(reader.backend, Damaged(backend, hist.damage))

\* the file object behind an FsSpecBackend starts to raise
BackendFails ==
    /\ reader.state = "ok" /\ reader.backend = "get_bytes_owned"
    /\ read_result = NoRead
    /\ reader' = [reader EXCEPT !.backend = "failing"]
    /\ UNCHANGED <<buffer, write_position, total_bytes_written, initial_capacity, backend,
                   sync_calls, array_writer, finalized, written, hist, last, read_result,
                   tree, py>>

GetChild(index) ==
    /\ reader.state = "ok"
    /\ read_result = NoRead
    /\ read_result' = [op |-> "get_child", args |-> [index |-> index]]
                      @@ get_child(Backend, reader.variable_data, index)
    /\ UNCHANGED <<buffer, write_position, total_bytes_written, initial_capacity, backend,
                   sync_calls, array_writer, finalized, written, hist, last, reader,
                   tree, py>>

\* init_child_from_offset_size called with the place of child index, as
\* get_child and the callers of get_flat_variable_metadata do
InitChild(index) ==
    /\ reader.state = "ok"
    /\ read_result = NoRead
    /\ om_variable_get_children(reader.variable_data, index).found
    /\ \E c \in {om_variable_get_children(reader.variable_data, index)} :
         read_result' = [op |-> "init_child_from_offset_size", args |-> [index |-> index]]
                        @@ init_child_from_offset_size(Backend,
                                                       OmOffsetSize_new(c.offset, c.size))
    /\ UNCHANGED <<buffer, write_position, total_bytes_written, initial_capacity, backend,
                   sync_calls, array_writer, finalized, written, hist, last, reader,
                   tree, py>>

GetFlatVariableMetadata ==
    /\ reader.state = "ok"
    /\ read_result = NoRead
    /\ read_result' = [op |-> "get_flat_variable_metadata"]
                      @@ get_flat_variable_metadata(Backend, reader)
    /\ UNCHANGED <<buffer, write_position, total_bytes_written, initial_capacity, backend,
                   sync_calls, array_writer, finalized, written, hist, last, reader,
                   tree, py>>

\* the arguments of a read_into call; read passes zeros, no offset and the
\* shape of the slice
ReadArgs(dim_read, into, into_cube_offset, into_cube_dimension, io_size_max, io_size_merge) ==
    [dim_read |-> dim_read, into |-> into, into_cube_offset |-> into_cube_offset,
     into_cube_dimension |-> into_cube_dimension, io_size_max |-> io_size_max,
     io_size_merge |-> io_size_merge]

\* read is called and runs up to the call of decode
StartRead(dim_read, io_size_max, io_size_merge, overflow_checks) ==
    /\ ReadableArray
    /\ read_result = NoRead
    /\ read_result' =
          [op |-> "read",
           args |-> ReadArgs(dim_read, Zeros(Product(out_dims_of(dim_read))),
                             [i \in 1..Len(dim_read) |-> 0], out_dims_of(dim_read),
                             io_size_max, io_size_merge)]
          @@ read_start(reader.variable_data, dim_read, io_size_max, io_size_merge,
                        overflow_checks)
    /\ UNCHANGED <<buffer, write_position, total_bytes_written, initial_capacity, backend,
                   sync_calls, array_writer, finalized, written, hist, last, reader,
                   tree, py>>

\* read_into is called and runs up to the call of decode
StartReadInto(a) ==
    /\ ReadableArray
    /\ read_result = NoRead
    /\ read_result' =
          [op |-> "read_into", args |-> a]
          @@ read_into_start(reader.variable_data, a.into, a.dim_read, a.into_cube_offset,
                             a.into_cube_dimension, a.io_size_max, a.io_size_merge, FALSE)
    /\ UNCHANGED <<buffer, write_position, total_bytes_written, initial_capacity, backend,
                   sync_calls, array_writer, finalized, written, hist, last, reader,
                   tree, py>>

\* a read is in progress inside decode
Decoding == read_result # NoRead /\ read_result.op \in {"read", "read_into"} /\ ~Ended(read_result)

\* decode takes its next step
DecodeStep ==
    /\ Decoding
    /\ read_result' = decode_step(Backend, read_result)
    /\ UNCHANGED <<buffer, write_position, total_bytes_written, initial_capacity, backend,
                   sync_calls, array_writer, finalized, written, hist, last, reader,
                   tree, py>>

-----------------------------------------------------------------------------
(* Specifications *)

\* shapes used in the writer sessions of Spec
SessionShapes == {<<(<<2, 2>>), (<<1, 2>>)>>, <<(<<1, 2>>), (<<3, 3>>)>>, <<(<<2, 2>>), (<<1>>)>>}

\* a writer session with scalars, one array, children and trailers; a reader is
\* opened on the files that end with a trailer
Next ==
    \/ \E s \in Scalars, c \in ChildLists(written, MaxChildren) : WriteScalar(s, c)
    \/ \E shape \in SessionShapes : PrepareArray(shape[1], shape[2])
    \/ \E r \in WriteRectangles(array_writer), g \in {0, 255}, oc \in BOOLEAN :
          WriteData(r, g, oc)
    \/ Finalize
    \/ \E n \in Names, c \in ChildLists(written, MaxChildren) : WriteArray(n, c)
    \/ \E root \in Roots : WriteTrailer(root)
    \/ (last.op = "write_trailer" /\ OpenReader("get_bytes", "none"))

Spec == Init /\ [][Next]_vars

\* one array of any shape written, finalized, recorded and read back
NextArray ==
    \/ \E shape \in ArrayShapes : PrepareArray(shape[1], shape[2])
    \/ \E r \in WriteRectangles(array_writer), g \in {0, 255}, oc \in BOOLEAN :
          WriteData(r, g, oc)
    \/ \E block \in ChunkBlocks(array_writer), oc \in BOOLEAN : WriteChunks(block, oc)
    \/ Finalize
    \/ \E n \in Names : WriteArray(n, <<>>)
    \/ \E root \in Roots : WriteTrailer(root)
    \/ \E d \in Damages : OpenReader("get_bytes", d)
    \/ \E r \in ReadRanges(IF ReadableArray THEN get_dimensions(reader.variable_data) ELSE <<>>) :
          Read(r)

SpecArray == Init /\ [][NextArray]_vars

\* shapes used in the sessions of SpecWrite; the last pair has mismatching ranks
WriteShapes ==
    {<<(<<2, 2>>), (<<1, 2>>)>>, <<(<<2, 2>>), (<<2, 2>>)>>, <<(<<2, 2>>), (<<1>>)>>}

\* arguments a caller may pass to write_data_flat, valid or not: a source array
\* of the writer's shape or of another one, a value too many, offsets that leave
\* the source (u64::MAX among them), counts of every size and of the wrong rank
AnyRectangles(aw) ==
    IF aw = NoArray THEN {} ELSE
    {Rectangle(Product(aw.dimensions), aw.dimensions, o, c) :
        o \in {<<0, 0>>, <<0, 1>>, <<0 - 1, 0>>},
        c \in {<<1, 1>>, <<1, 2>>, <<2, 2>>, <<MaxDim + 1, 1>>, <<2>>}}
    \cup {Rectangle(Product(aw.dimensions) + 1, aw.dimensions, <<0, 0>>, aw.dimensions),
          Rectangle(9, <<3, 3>>, <<0, 1>>, <<2, 2>>)}

\* an array writer fed with arbitrary write_data_flat calls
NextWrite ==
    \/ WriteScalar(<<DataType_Int32, 300, (<<105, 110, 116>>)>>, <<>>)
    \/ \E shape \in WriteShapes : PrepareArray(shape[1], shape[2])
    \/ \E r \in WriteRectangles(array_writer) \cup AnyRectangles(array_writer),
          g \in {0, 255}, oc \in BOOLEAN : WriteData(r, g, oc)
    \/ Finalize

SpecWrite == Init /\ [][NextWrite]_vars

\* a writer session of either initial capacity with one scalar, one array fed
\* whole or chunk by chunk, children and trailers
NextFile ==
    \/ \E c \in ChildLists(written, MaxChildren) :
          WriteScalar(<<DataType_Int32, 300, (<<105, 110, 116>>)>>, c)
    \/ PrepareArray(<<2, 2>>, <<1, 2>>)
    \/ \E r \in WriteRectangles(array_writer) : WriteData(r, 0, FALSE)
    \/ Finalize
    \/ \E c \in ChildLists(written, MaxChildren) : WriteArray(<<110, 97, 109>>, c)
    \/ \E root \in Roots : WriteTrailer(root)

SpecFile == Init /\ [][NextFile]_vars

\* the capacities a caller of reallocate asks for: nothing, less than what is
\* left, whole multiples of an initial capacity and one byte more
MinimumCapacities == {0, 1, 8, 9, 16, 17, 128, 129, 256}

\* records are written through the buffered writer and room is asked for in
\* between
NextBuffer ==
    \/ \E s \in Scalars : WriteScalar(s, <<>>)
    \/ \E minimum_capacity \in MinimumCapacities : Reallocate(minimum_capacity)
    \/ \E root \in Roots : WriteTrailer(root)

SpecBuffer == Init /\ [][NextBuffer]_vars

\* a higher-level writer builds a tree, validates it and writes it
NextTree ==
    \/ (last.op # "write_variables" /\ initial_capacity = 8 /\ \E name \in TreeNames : AddNode(name, TreeVariable(name)))
    \/ (last.op # "write_variables"
        /\ \E parent_name \in TreeNames, children \in TreeChildren :
              SetChildren(parent_name, children))
    \/ (last.op # "write_variables" /\ \E keys \in KeyOrders(tree.nodes) : ValidateTree(keys))
    \/ (last.op # "write_variables" /\ \E keys \in KeyOrders(tree.nodes) : WriteVariables(keys))

SpecTree == Init /\ [][NextTree]_vars

\* shapes of the arrays that are read back in SpecRead: chunks of one element
\* (slices that leave chunks out) and chunks of a row
ReadShapes == {<<(<<2, 2>>), (<<1, 1>>)>>, <<(<<2, 2>>), (<<1, 2>>)>>}

\* the slices a caller reads: every non-empty in-bounds rectangle
Slices(dimensions) ==
    {r \in [1..Len(dimensions) -> [start : 0..MaxDim, end : 1..MaxDim]] :
        \A i \in 1..Len(dimensions) : r[i].start < r[i].end /\ r[i].end <= dimensions[i]}

\* a destination before read_into: every cell holds a value no array element has
Untouched(dimension) == [p \in 1..Product(dimension) |-> 100 + p]

\* slices of one range and of three, for an array of rank two
WrongRankSlices ==
    {<<[start |-> 0, end |-> 1]>>,
     <<[start |-> 0, end |-> 1], [start |-> 0, end |-> 1], [start |-> 0, end |-> 1]>>}

\* read_into arguments for an array of rank two in which the slice, the
\* offset or the shape of the destination has another rank
WrongRankArgs ==
    {ReadArgs(r, Untouched(<<2, 2>>), <<0, 0>>, <<2, 2>>, None, None) : r \in WrongRankSlices}
    \cup {ReadArgs(<<[start |-> 0, end |-> 1], [start |-> 0, end |-> 2]>>, Untouched(<<2, 2>>),
                   od[1], od[2], None, None) :
             od \in ({<<0>>, <<0, 0>>, <<0, 0, 0>>} \X {<<4>>, <<2, 2>>, <<2, 2, 1>>})
                        \ {<<(<<0, 0>>), (<<2, 2>>)>>}}

\* slices that leave an array on one axis, by their end or from their start on
ExceedingSlices(dimensions) ==
    {[i \in 1..Len(dimensions) |->
         IF i = axis THEN [start |-> dimensions[i] - before, end |-> dimensions[i] + 1]
         ELSE [start |-> 0, end |-> 1]] :
       axis \in 1..Len(dimensions), before \in 0..1}

\* a slice whose first range ends before it starts
ReversedSlice == <<[start |-> 1, end |-> 0], [start |-> 0, end |-> 1]>>

\* values of io_size_max and io_size_merge: None, and sizes around those of
\* the chunks and of the gaps between them
IoSizesMax == {None, Some(0), Some(1), Some(2), Some(3)}

IoSizesMerge == {None, Some(0), Some(1)}

\* destinations of read_into for a slice: a cube of the slice's shape or one
\* cell larger along every axis, the slice placed at any offset that fits,
\* every cell holding a value no array element has
Destinations(dim_read) ==
    LET count == out_dims_of(dim_read) IN
    {d \in [offset : [1..Len(count) -> 0..1], dimension : [1..Len(count) -> 1..(MaxDim + 1)]] :
        /\ \A i \in 1..Len(count) : d.offset[i] + count[i] <= d.dimension[i]
        /\ \/ d.dimension = count
           \/ d.dimension = [i \in 1..Len(count) |-> count[i] + 1]}

\* a reader is open and has been asked for nothing yet
Idle == reader.state = "ok" /\ read_result = NoRead

\* one array, with or without a child, written through the small buffer and
\* read back: by backends of every kind, slice by slice, one step of decode at
\* a time
NextRead ==
    \/ (initial_capacity = 8 /\ written = <<>> /\ hist.arrays = 0
        /\ WriteScalar(<<DataType_Int8, 7, (<<115>>)>>, <<>>))
    \/ (initial_capacity = 8 /\ \E shape \in ReadShapes : PrepareArray(shape[1], shape[2]))
    \/ (array_writer # NoArray /\ array_writer.chunk_index = 0
        /\ WriteData(Rectangle(Product(array_writer.dimensions), array_writer.dimensions,
                               [i \in 1..Len(array_writer.dimensions) |-> 0],
                               array_writer.dimensions), 0, FALSE))
    \/ (array_writer # NoArray /\ array_writer.chunk_index > 0 /\ Finalize)
    \/ \E c \in ChildLists(written, 1) : WriteArray(<<110>>, c)
    \/ (written # <<>> /\ last.op = "write_array" /\ WriteTrailer(written[Len(written)]))
    \/ (last.op = "write_trailer" /\ \E kind \in BackendKinds : OpenReader(kind, "none"))
    \/ BackendFails
    \/ (Idle /\ \E index \in 0..1 : GetChild(index))
    \/ (Idle /\ \E index \in 0..1 : InitChild(index))
    \/ (Idle /\ ReadableArray
        /\ \E r \in Slices(get_dimensions(reader.variable_data)) \cup {ReversedSlice}
                      \cup WrongRankSlices
                      \cup ExceedingSlices(get_dimensions(reader.variable_data)),
              io_size_max \in IoSizesMax, io_size_merge \in IoSizesMerge, oc \in BOOLEAN :
              StartRead(r, io_size_max, io_size_merge, oc))
    \/ (Idle /\ ReadableArray
        /\ \E a \in WrongRankArgs
                  \cup {ReadArgs(r, Untouched(<<2, 2>>), <<0, 0>>, <<2, 2>>, None, None) :
                          r \in ExceedingSlices(get_dimensions(reader.variable_data))} :
              StartReadInto(a))
    \/ (Idle /\ ReadableArray
        /\ \E r \in Slices(get_dimensions(reader.variable_data)) :
              \E d \in Destinations(r),
                 io \in {<<None, None>>, <<Some(0), Some(0)>>, <<Some(3), Some(1)>>} :
                 StartReadInto(ReadArgs(r, Untouched(d.dimension), d.offset, d.dimension,
                                        io[1], io[2])))
    \/ DecodeStep

SpecRead == Init /\ [][NextRead]_vars

\* the scalars of a hierarchy: one named "s", one named "s/s"
MetaScalars ==
    {<<DataType_Int8, 7, (<<115>>)>>, <<DataType_Int32, 300, (<<115, 47, 115>>)>>}

\* a hierarchy of scalars and one array, each record with up to MaxChildren + 1
\* of the earlier records as its children, any record as the root; the reader
\* is asked for the metadata of the whole file or for one child of the root
NextMeta ==
    \/ (initial_capacity = 128
        /\ \E s \in MetaScalars, c \in ChildLists(written, MaxChildren + 1) : WriteScalar(s, c))
    \/ (initial_capacity = 128 /\ PrepareArray(<<2, 2>>, <<1, 2>>))
    \/ (array_writer # NoArray /\ array_writer.chunk_index = 0
        /\ WriteData(Rectangle(4, <<2, 2>>, <<0, 0>>, <<2, 2>>), 0, FALSE))
    \/ (array_writer # NoArray /\ array_writer.chunk_index > 0 /\ Finalize)
    \/ \E c \in ChildLists(written, MaxChildren + 1) : WriteArray(<<110>>, c)
    \/ (hist.trailers = 0 /\ written # <<>> /\ \E root \in Roots : WriteTrailer(root))
    \/ (last.op = "write_trailer" /\ OpenReader("get_bytes", "none"))
    \/ (Idle /\ GetFlatVariableMetadata)
    \/ (Idle /\ \E index \in 0..(MaxChildren + 1) : GetChild(index))

SpecMeta == InitMeta /\ [][NextMeta]_vars

-----------------------------------------------------------------------------
(* ArrayIndex: numpy-like basic indexing of the Python reader.
   An IndexType is [kind, i, start, stop, step]: kind "Int" with the integer
   i, kind "Slice" with start, stop and step as options, or kind "NewAxis" *)

IndexType_Int(i) == [kind |-> "Int", i |-> i, start |-> None, stop |-> None, step |-> None]

IndexType_Slice(start, stop, step) ==
    [kind |-> "Slice", i |-> 0, start |-> start, stop |-> stop, step |-> step]

IndexType_NewAxis == [kind |-> "NewAxis", i |-> 0, start |-> None, stop |-> None, step |-> None]

Range(start, end) == [start |-> start, end |-> end]

\* normalize_index that refuses every negative index
normalize_index_refusing_negatives(idx, dim_size) ==
    IF idx < 0 \/ idx > dim_size THEN [err |-> "IndexError", value |-> 0]
    ELSE [err |-> "ok", value |-> idx]

\* normalize_index that adds the dimension to a negative index and checks nothing
normalize_index_unchecked(idx, dim_size) ==
    [err |-> "ok", value |-> IF idx < 0 THEN idx + dim_size ELSE idx]

normalize_index(idx, dim_size) ==
    LET normalized == IF idx < 0 THEN idx + dim_size ELSE idx IN
    IF normalized < 0 \/ normalized > dim_size THEN [err |-> "IndexError", value |-> 0]
    ELSE [err |-> "ok", value |-> normalized]

\* the bound of a slice: the normalized index, or the default when absent
SliceBound(bound, default, dim_size) ==
    IF ~bound.some THEN [err |-> "ok", value |-> default]
    ELSE LET normalized == normalize_index(bound.value, dim_size) IN
         IF normalized.err # "ok" THEN normalized
         ELSE IF normalized.value > dim_size THEN [err |-> "IndexError", value |-> 0]
         ELSE normalized

\* the loop of to_read_range over the zipped index and shape, from element k on
RECURSIVE ToReadRanges(_, _, _, _, _)
ToReadRanges(index, shape, k, ranges, shape_idx) ==
    IF k > Len(index)
    THEN [err |-> "ok",
          ranges |-> ranges \o [j \in 1..(Len(shape) - shape_idx) |->
                                  Range(0, shape[shape_idx + j])]]
    ELSE LET idx == index[k]
             dim_size == shape[k]
         IN IF idx.kind = "Int"
            THEN LET normalized_idx == normalize_index(idx.i, dim_size) IN
                 IF normalized_idx.err # "ok" THEN [err |-> normalized_idx.err, ranges |-> <<>>]
                 ELSE ToReadRanges(index, shape, k + 1,
                                   Append(ranges, Range(normalized_idx.value,
                                                        normalized_idx.value + 1)),
                                   shape_idx + 1)
            ELSE IF idx.kind = "Slice"
            THEN LET start_idx == SliceBound(idx.start, 0, dim_size)
                     stop_idx == SliceBound(idx.stop, dim_size, dim_size)
                 IN IF idx.step.some /\ idx.step.value # 1
                    THEN [err |-> "ValueError", ranges |-> <<>>]
                    ELSE IF start_idx.err # "ok" THEN [err |-> start_idx.err, ranges |-> <<>>]
                    ELSE IF stop_idx.err # "ok" THEN [err |-> stop_idx.err, ranges |-> <<>>]
                    ELSE IF stop_idx.value <= start_idx.value
                    THEN [err |-> "ValueError", ranges |-> <<>>]
                    ELSE ToReadRanges(index, shape, k + 1,
                                      Append(ranges, Range(start_idx.value, stop_idx.value)),
                                      shape_idx + 1)
            ELSE ToReadRanges(index, shape, k + 1, Append(ranges, Range(0, dim_size)),
                              shape_idx)

to_read_range(index, shape) ==
    IF Len(index) > Len(shape) THEN [err |-> "IndexError", ranges |-> <<>>]
    ELSE IF Len(index) < Len(shape) THEN [err |-> "IndexError", ranges |-> <<>>]
    ELSE ToReadRanges(index, shape, 1, <<>>, 0)

-----------------------------------------------------------------------------
(* OmFilePyReader: the reader behind an RwLock, shared between threads.
   py is [state, kind, objects, strong, closed, threads]:
     objects[o]  the OmFilePyReader o: whether it exists, its lock (a writer
                 flag and the number of read guards) and whether its reader
                 is Some; object 1 is the one opened, object 2 the one
                 init_from_variable makes over the same backend
     strong      the strong count of the Arc that holds the backend
     closed      the backend has been taken out of the Arc and closed (FsSpec)
                 or dropped (Mmap)
     threads[t]  where thread t is: its pc, the object it works on, the depth
                 of its read guards, the result of its last call, and what
                 its last read found *)

Threads == 1..MaxThreads

PyObjects == {1, 2}

\* RwLock::try_read: Err(WouldBlock) while a write guard exists
try_read(lock) ==
    IF lock.writer THEN [ok |-> FALSE, lock |-> lock]
    ELSE [ok |-> TRUE, lock |-> [lock EXCEPT !.readers = @ + 1]]

\* RwLock::try_write: Err(WouldBlock) while any guard exists
try_write(lock) ==
    IF lock.writer \/ lock.readers > 0 THEN [ok |-> FALSE, lock |-> lock]
    ELSE [ok |-> TRUE, lock |-> [lock EXCEPT !.writer = TRUE]]

NoLock == [writer |-> FALSE, readers |-> 0]

IdleThread == [pc |-> "idle", object |-> 0, depth |-> 0, result |-> "none",
               found_writer |-> FALSE, used_closed |-> FALSE,
               op |-> "none", after_close |-> FALSE]

\* from_path, from_fsspec: a reader over a backend in a new Arc
OmFilePyReader_new(kind, shape) ==
    [state |-> "open", kind |-> kind, shape |-> shape,
     objects |-> [o \in PyObjects |->
                    [exists |-> o = 1, lock |-> NoLock, reader |-> o = 1,
                     close_returned |-> FALSE]],
     strong |-> 1, closed |-> FALSE,
     threads |-> [t \in Threads |-> IdleThread]]

\* the body of close under the write guard that closes the backend whoever
\* else holds it
close_taking_always_closes(p, o) ==
    IF ~p.objects[o].reader THEN p
    ELSE [p EXCEPT !.objects[o].reader = FALSE, !.strong = @ - 1, !.closed = TRUE]

\* the body of close under the write guard that leaves the reader in the Option
close_taking_nothing(p, o) == p

\* the body of close under the write guard: guard.take(), and the backend is
\* closed or dropped when Arc::try_unwrap finds no other holder; otherwise
\* the Arc given back is dropped
close_taking(p, o) ==
    IF ~p.objects[o].reader THEN p
    ELSE IF p.strong = 1
    THEN [p EXCEPT !.objects[o].reader = FALSE, !.strong = 0, !.closed = TRUE]
    ELSE [p EXCEPT !.objects[o].reader = FALSE, !.strong = @ - 1]

PyFrame ==
    UNCHANGED <<buffer, write_position, total_bytes_written, initial_capacity, backend,
                sync_calls, array_writer, finalized, written, hist, last, reader,
                read_result, tree>>

PyOpen(kind, shape) ==
    /\ py = NoPyReader
    /\ py' = OmFilePyReader_new(kind, shape)
    /\ PyFrame

\* with_reader up to try_read: the error of a reader that is being closed,
\* or a read guard
ReadBegin(t, o) ==
    /\ py.state = "open" /\ py.objects[o].exists
    /\ py.threads[t].pc = "idle"
    /\ \E r \in {try_read(py.objects[o].lock)} :
         py' = IF ~r.ok
               THEN [py EXCEPT !.threads[t] =
                        [IdleThread EXCEPT !.result = "being closed",
                                           !.found_writer = py.objects[o].lock.writer,
                                           !.op = "with_reader",
                                           !.after_close = py.objects[o].close_returned]]
               ELSE [py EXCEPT !.objects[o].lock = r.lock,
                               !.threads[t] =
                        [IdleThread EXCEPT !.pc = "with_reader", !.object = o, !.depth = 1,
                                           !.found_writer = py.objects[o].lock.writer,
                                           !.op = "with_reader",
                                           !.after_close = py.objects[o].close_returned]]
    /\ PyFrame

\* __getitem__: to_read_range on the shape of the object, whose error is
\* returned at once, and then with_reader
GetItem(t, o, index) ==
    /\ py.state = "open" /\ py.objects[o].exists
    /\ py.threads[t].pc = "idle"
    /\ \E read_ranges \in {to_read_range(index, py.shape)},
          r \in {try_read(py.objects[o].lock)} :
         /\ read_result' = [op |-> "to_read_range", index |-> index, shape |-> py.shape,
                            err |-> read_ranges.err, ranges |-> read_ranges.ranges]
         /\ py' = IF read_ranges.err # "ok"
                  THEN [py EXCEPT !.threads[t] =
                           [IdleThread EXCEPT !.result = read_ranges.err,
                                              !.op = "__getitem__",
                                              !.after_close = py.objects[o].close_returned]]
                  ELSE IF ~r.ok
                  THEN [py EXCEPT !.threads[t] =
                           [IdleThread EXCEPT !.result = "being closed",
                                              !.found_writer = py.objects[o].lock.writer,
                                              !.op = "__getitem__",
                                              !.after_close = py.objects[o].close_returned]]
                  ELSE [py EXCEPT !.objects[o].lock = r.lock,
                                  !.threads[t] =
                           [IdleThread EXCEPT !.pc = "with_reader", !.object = o, !.depth = 1,
                                              !.found_writer = py.objects[o].lock.writer,
                                              !.op = "__getitem__",
                                              !.after_close = py.objects[o].close_returned]]
    /\ UNCHANGED <<buffer, write_position, total_bytes_written, initial_capacity, backend,
                   sync_calls, array_writer, finalized, written, hist, last, reader, tree>>

\* the closed getter: try_read, is_none, and the guard is dropped at once
ClosedGetter(t, o) ==
    /\ py.state = "open" /\ py.objects[o].exists
    /\ py.threads[t].pc = "idle"
    /\ py' = [py EXCEPT !.threads[t] =
                 [IdleThread EXCEPT !.result = IF ~try_read(py.objects[o].lock).ok
                                               THEN "lock error"
                                               ELSE IF py.objects[o].reader THEN "closed: false"
                                               ELSE "closed: true",
                                    !.op = "closed",
                                    !.after_close = py.objects[o].close_returned]]
    /\ PyFrame

\* with_reader under the guard: the error of a closed reader, or f(reader)
ReadEnter(t) ==
    /\ py.state = "open" /\ py.threads[t].pc = "with_reader"
    /\ \E o \in {py.threads[t].object} :
         py' = IF py.objects[o].reader
               THEN [py EXCEPT !.threads[t].pc = "reading"]
               ELSE [py EXCEPT !.objects[o].lock.readers = @ - 1,
                               !.threads[t].pc = IF py.threads[t].depth > 1
                                                 THEN "reading" ELSE "idle",
                               !.threads[t].depth = @ - 1,
                               !.threads[t].result = "closed"]
    /\ PyFrame

\* f(reader) asks the backend for bytes
ReadAccess(t) ==
    /\ py.state = "open" /\ py.threads[t].pc = "reading"
    /\ py' = [py EXCEPT !.threads[t].used_closed = @ \/ py.closed]
    /\ PyFrame

\* get_scalar: f(reader) calls with_reader again on the same object
ReadNested(t) ==
    /\ py.state = "open" /\ py.threads[t].pc = "reading" /\ py.threads[t].depth = 1
    /\ \E o \in {py.threads[t].object} :
       \E r \in {try_read(py.objects[o].lock)} :
         py' = IF ~r.ok THEN [py EXCEPT !.threads[t].result = "being closed"]
               ELSE [py EXCEPT !.objects[o].lock = r.lock,
                               !.threads[t].pc = "with_reader",
                               !.threads[t].depth = 2]
    /\ PyFrame

\* init_from_variable: f(reader) makes a reader that holds the same Arc
InitFromVariable(t) ==
    /\ py.state = "open" /\ py.threads[t].pc = "reading" /\ py.threads[t].depth = 1
    /\ ~py.objects[2].exists
    /\ py' = [py EXCEPT !.objects[2] = [exists |-> TRUE, lock |-> NoLock, reader |-> TRUE,
                                        close_returned |-> FALSE],
                        !.strong = @ + 1,
                        !.threads[t].used_closed = @ \/ py.closed]
    /\ PyFrame

\* f(reader) returns and the guard is dropped
ReadEnd(t) ==
    /\ py.state = "open" /\ py.threads[t].pc = "reading"
    /\ \E o \in {py.threads[t].object} :
         py' = [py EXCEPT !.objects[o].lock.readers = @ - 1,
                          !.threads[t].depth = @ - 1,
                          !.threads[t].pc = IF py.threads[t].depth > 1
                                            THEN "reading" ELSE "idle",
                          !.threads[t].result = "ok"]
    /\ PyFrame

\* close up to try_write: a lock error, or the write guard
CloseBegin(t, o) ==
    /\ py.state = "open" /\ py.objects[o].exists
    /\ py.threads[t].pc = "idle"
    /\ \E r \in {try_write(py.objects[o].lock)} :
         py' = IF ~r.ok
               THEN [py EXCEPT !.threads[t] =
                        [IdleThread EXCEPT !.result = "lock error", !.op = "close",
                                           !.after_close = py.objects[o].close_returned]]
               ELSE [py EXCEPT !.objects[o].lock = r.lock,
                               !.threads[t] =
                        [IdleThread EXCEPT !.pc = "closing", !.object = o, !.op = "close",
                                           !.after_close = py.objects[o].close_returned]]
    /\ PyFrame

CloseTake(t) ==
    /\ py.state = "open" /\ py.threads[t].pc = "closing"
    /\ py' = [close_taking(py, py.threads[t].object) EXCEPT !.threads[t].pc = "taken"]
    /\ PyFrame

\* close returns and the write guard is dropped
CloseEnd(t) ==
    /\ py.state = "open" /\ py.threads[t].pc = "taken"
    /\ py' = [py EXCEPT !.objects[py.threads[t].object].lock.writer = FALSE,
                        !.objects[py.threads[t].object].close_returned = TRUE,
                        !.threads[t].pc = "idle",
                        !.threads[t].result = "close ok"]
    /\ PyFrame

\* the indices the threads pass to __getitem__: one that selects an element
\* of the 2 x 2 array and one with a step
PyIndices ==
    {<<IndexType_Int(0), IndexType_Int(-1)>>,
     <<IndexType_Int(0), IndexType_Slice(None, None, Some(2))>>}

\* threads that read from and close the reader objects over one backend
NextPy ==
    \/ \E kind \in {"FsSpec", "Mmap"} : PyOpen(kind, <<2, 2>>)
    \/ \E t \in Threads, o \in PyObjects : ReadBegin(t, o)
    \/ \E t \in Threads : ReadEnter(t)
    \/ \E t \in Threads : ReadAccess(t)
    \/ \E t \in Threads : ReadNested(t)
    \/ \E t \in Threads : InitFromVariable(t)
    \/ \E t \in Threads : ReadEnd(t)
    \/ \E t \in Threads, o \in PyObjects : CloseBegin(t, o)
    \/ \E t \in Threads : CloseTake(t)
    \/ \E t \in Threads : CloseEnd(t)

SpecPy == Init /\ [][NextPy]_vars

\* the shapes of the arrays that are indexed
IndexShapes == {<<MaxDim + 1>>, <<MaxDim, MaxDim + 1>>}

\* the bounds and the steps of the slices a caller writes on an axis of size d
SliceBounds(d) == {None} \cup {Some(v) : v \in (0 - (d + 1))..(d + 1)}

SliceSteps == {None, Some(1), Some(2)}

\* every index element on an axis of size d, and a few of them
IndexElements(d) ==
    {IndexType_Int(i) : i \in (0 - (d + 2))..(d + 1)}
    \cup {IndexType_Slice(start, stop, step) :
            start \in SliceBounds(d), stop \in SliceBounds(d), step \in SliceSteps}
    \cup {IndexType_NewAxis}

FewIndexElements ==
    {IndexType_Int(0), IndexType_Int(-1), IndexType_NewAxis,
     IndexType_Slice(None, None, None), IndexType_Slice(None, None, Some(2)),
     IndexType_Slice(Some(1), Some(0), None)}

\* the indices a caller passes for an array of that shape: every element on
\* one axis with a few on the other, and indices of another rank
Indices(shape) ==
    IF Len(shape) = 1
    THEN {<<e>> : e \in IndexElements(shape[1])}
         \cup {<<>>} \cup {<<e, e>> : e \in FewIndexElements}
    ELSE {<<e, f>> : e \in IndexElements(shape[1]), f \in FewIndexElements}
         \cup {<<f, e>> : e \in IndexElements(shape[2]), f \in FewIndexElements}
         \cup {<<e>> : e \in FewIndexElements}

\* one thread that indexes an array through __getitem__, once
NextIndex ==
    \/ \E shape \in IndexShapes : PyOpen("Mmap", shape)
    \/ (py.state = "open" /\ read_result = NoRead
        /\ \E index \in Indices(py.shape) : GetItem(1, 1, index))
    \/ ReadEnter(1)
    \/ ReadAccess(1)
    \/ ReadEnd(1)

SpecIndex == Init /\ [][NextIndex]_vars

\* threads that call every kind of operation on one reader object and close it
NextClose ==
    \/ PyOpen("FsSpec", <<2, 2>>)
    \/ \E t \in Threads : ReadBegin(t, 1)
    \/ \E t \in Threads, index \in PyIndices : GetItem(t, 1, index)
    \/ \E t \in Threads : ClosedGetter(t, 1)
    \/ \E t \in Threads : ReadEnter(t)
    \/ \E t \in Threads : ReadEnd(t)
    \/ \E t \in Threads : CloseBegin(t, 1)
    \/ \E t \in Threads : CloseTake(t)
    \/ \E t \in Threads : CloseEnd(t)

SpecClose == Init /\ [][NextClose]_vars

-----------------------------------------------------------------------------
(* FsSpecBackend: one Python file object, py_file, shared through Arc by a
   reader and the child readers made from it.  get_bytes_owned positions the
   file with seek and fetches with read, two calls into Python; the interpreter
   may hand the GIL to another thread while either call runs, so the two calls
   are two steps.  py is [state, file, file_size, position, calls], calls[t] is
   the get_bytes_owned call of thread t: [pc, offset, count, bytes] *)

\* the bytes of the file that py_file is open on
FsFile == <<10, 11, 12, 13>>

\* the offsets and counts of the records that the readers fetch
FsOffsets == {0, 2}
FsCounts == {1, 2}

NoCall == [pc |-> "idle", offset |-> 0, count |-> 0, bytes |-> <<>>]

\* FsSpecBackend::new: the file is opened and its size is taken from info
FsSpecBackend_new ==
    /\ py = NoPyReader /\ initial_capacity = 8
    /\ py' = [state |-> "fsspec", file |-> FsFile, file_size |-> Len(FsFile), position |-> 0,
              calls |-> [t \in Threads |-> NoCall]]
    /\ UNCHANGED <<buffer, write_position, total_bytes_written, initial_capacity, backend,
                   sync_calls, array_writer, finalized, written, hist, last, reader,
                   read_result, tree>>

\* get_bytes_owned up to the return of py_file.seek(offset)
GetBytesOwnedSeek(t, offset, count) ==
    /\ py.state = "fsspec" /\ py.calls[t].pc \in {"idle", "returned"}
    /\ py' = [py EXCEPT !.position = offset,
                        !.calls[t] = [pc |-> "seeked", offset |-> offset, count |-> count,
                                      bytes |-> <<>>]]
    /\ UNCHANGED <<buffer, write_position, total_bytes_written, initial_capacity, backend,
                   sync_calls, array_writer, finalized, written, hist, last, reader,
                   read_result, tree>>

\* get_bytes_owned from py_file.read(count) to its return: the file yields the
\* bytes at its position, fewer at its end, and moves its position past them
GetBytesOwnedRead(t) ==
    /\ py.state = "fsspec" /\ py.calls[t].pc = "seeked"
    /\ \E py_bytes \in {SubSeq(py.file, py.position + 1,
                               Min(py.position + py.calls[t].count, Len(py.file)))} :
         py' = [py EXCEPT !.position = @ + Len(py_bytes),
                          !.calls[t].pc = "returned",
                          !.calls[t].bytes = py_bytes]
    /\ UNCHANGED <<buffer, write_position, total_bytes_written, initial_capacity, backend,
                   sync_calls, array_writer, finalized, written, hist, last, reader,
                   read_result, tree>>

\* threads fetch records through one FsSpecBackend
NextFsSpec ==
    \/ FsSpecBackend_new
    \/ \E t \in Threads, offset \in FsOffsets, count \in FsCounts :
          GetBytesOwnedSeek(t, offset, count)
    \/ \E t \in Threads : GetBytesOwnedRead(t)

SpecFsSpec == Init /\ [][NextFsSpec]_vars

\* one array written and read back one step of decode at a time; decode is a
\* loop of the calling thread, which keeps taking steps until it returns
NextRun ==
    \/ (initial_capacity = 8 /\ \E shape \in ReadShapes : PrepareArray(shape[1], shape[2]))
    \/ (array_writer # NoArray /\ array_writer.chunk_index = 0
        /\ WriteData(Rectangle(Product(array_writer.dimensions), array_writer.dimensions,
                               [i \in 1..Len(array_writer.dimensions) |-> 0],
                               array_writer.dimensions), 0, FALSE))
    \/ (array_writer # NoArray /\ array_writer.chunk_index > 0 /\ Finalize)
    \/ WriteArray(<<110>>, <<>>)
    \/ (written # <<>> /\ last.op = "write_array" /\ WriteTrailer(written[Len(written)]))
    \/ (last.op = "write_trailer"
        /\ \E kind \in {"get_bytes", "get_bytes_owned"} : OpenReader(kind, "none"))
    \/ BackendFails
    \/ (Idle /\ ReadableArray
        /\ \E r \in Slices(get_dimensions(reader.variable_data)),
              io_size_max \in IoSizesMax, io_size_merge \in IoSizesMerge :
              StartRead(r, io_size_max, io_size_merge, FALSE))
    \/ DecodeStep

SpecRun == Init /\ [][NextRun]_vars /\ WF_vars(DecodeStep)

-----------------------------------------------------------------------------
(* Properties *)

\* the file as the writer has produced it so far
File == FileBytes(BufferedWriter)

\* an array has been finalized after all of its chunks were written
ArrayComplete ==
    /\ hist.array # NoArray
    /\ hist.chunks_written = om_encoder_count_chunks(hist.array.dimensions, hist.array.chunks)

\* C1: round trip. After an array was written completely, finalized, recorded
\* and the trailer written, a read of any in-bounds rectangle succeeds and holds
\* at each output position the value stored at the corresponding coordinate.
C1_RoundTrip ==
    (read_result # NoRead /\ ArrayComplete /\ hist.damage = "none") =>
        /\ read_result.state = "ok"
        /\ LET dims == hist.array.dimensions
               start == [i \in 1..Len(dims) |-> read_result.dim_read[i].start]
               count == [i \in 1..Len(dims) |->
                           read_result.dim_read[i].end - read_result.dim_read[i].start]
           IN /\ Len(read_result.values) = Product(count)
              /\ \A p \in 1..Product(count) :
                    read_result.values[p] =
                        SourceArray(dims)[Linear(dims, [i \in 1..Len(dims) |->
                                             start[i] + Coordinates(count, p - 1)[i]]) + 1]

\* a rectangle that spans more than one chunk and does not start at the origin
\* was read from an array whose chunks do not divide its dimensions
C1_Witness ==
    /\ read_result # NoRead /\ ArrayComplete /\ hist.damage = "none"
    /\ read_result.state = "ok"
    /\ hist.array.dimensions = <<2, 2>> /\ hist.array.chunks = <<3, 1>>
    /\ read_result.dim_read = <<[start |-> 1, end |-> 2], [start |-> 0, end |-> 2]>>

\* C2: total_bytes_written is the number of bytes handed to the backend plus
\* write_position.
C2_TotalBytesWritten == total_bytes_written = Len(backend) + write_position

\* bytes were flushed and further bytes are buffered
C2_Witness == Len(backend) > 0 /\ write_position > 0 /\ Len(buffer) > initial_capacity

\* where the record of the last write_scalar / write_array could start at the
\* earliest: after the header, or where the file ended before the call
RecordEarliest == IF last.before = 0 THEN HeaderWriteSize ELSE last.before

\* C3: every offset returned by write_scalar and write_array is a multiple of 8,
\* reached from the end of the earlier bytes by 0 to 7 zero bytes, and by none
\* when that end is already a multiple of 8.
C3_Alignment ==
    (last.op \in {"write_scalar", "write_array"}) =>
        /\ last.result.offset % 8 = 0
        /\ last.result.offset - RecordEarliest \in 0..7
        /\ (RecordEarliest % 8 = 0 => last.result.offset = RecordEarliest)
        /\ \A i \in (RecordEarliest + 1)..last.result.offset : File[i] = 0

\* an array record was written after chunk data and a lookup table that ended
\* off the 8-byte grid
C3_Witness ==
    /\ last.op = "write_array"
    /\ last.before % 8 \in {1, 7}
    /\ last.result.offset > last.before

\* C4: in every finalized array the lookup table increases strictly and ends at
\* or before lut_offset.
C4_LutMonotone ==
    (hist.array # NoArray) =>
        /\ \A i \in 1..(Len(hist.lut) - 1) : hist.lut[i] < hist.lut[i + 1]
        /\ hist.lut[Len(hist.lut)] <= hist.array.lut_offset

\* C5: layout of a completely written array: n_chunks + 1 entries; chunk i at
\* [LUT[i], LUT[i+1]); LUT[0] at or after the header; the lookup table follows
\* the last chunk and occupies [lut_offset, lut_offset + lut_size).
C5_Layout ==
    ArrayComplete =>
        LET a == hist.array
            n == om_encoder_count_chunks(a.dimensions, a.chunks)
        IN /\ Len(hist.lut) = n + 1
           /\ hist.lut[1] >= HeaderWriteSize
           /\ \A c \in 0..(n - 1) :
                 SubSeq(File, hist.lut[c + 1] + 1, hist.lut[c + 2]) =
                     om_encoder_compress_chunk(a.dimensions, a.chunks,
                         SourceArray(a.dimensions), a.dimensions,
                         [i \in 1..Len(a.dimensions) |-> 0], a.dimensions, c, c, 0)
           /\ a.lut_offset = hist.lut[n + 1]
           /\ SubSeq(File, a.lut_offset + 1, a.lut_offset + a.lut_size) =
                 om_encoder_compress_lut(hist.lut)

\* an array of several chunks of different sizes, fed chunk by chunk through a
\* small buffer, has been finalized and more was written after it
C5_Witness ==
    /\ ArrayComplete
    /\ hist.array.dimensions = <<2, 2>> /\ hist.array.chunks = <<1, 3>>
    /\ initial_capacity = 8
    /\ hist.records > 0

\* C6: when write_trailer returns Ok the buffered writer is flushed and the
\* backend has been synchronized.
C6_TrailerFlushedAndSynced ==
    (last.op = "write_trailer" /\ last.err = Ok) =>
        /\ write_position = 0
        /\ Len(backend) = total_bytes_written
        /\ sync_calls > 0

\* C7: a reader opened on a file that ends with the trailer of write_trailer(root),
\* root being a record the writer returned, is a reader over the record at
\* (root.offset, root.size).
C7_TrailerRoundTrip ==
    (reader # NoReader /\ hist.damage = "none" /\ last.op = "write_trailer"
        /\ written # <<>>) =>
        /\ reader.state = "ok"
        /\ reader.has_offset_size
        /\ reader.offset_size = hist.trailer_root
        /\ \E i \in 1..Len(written) :
              /\ written[i] = hist.trailer_root
              /\ reader.variable_data = hist.record_bytes[i]

\* the root is not the last record written: a reader was opened on a file whose
\* root record is followed by another record
C7_Witness ==
    /\ reader # NoReader /\ reader.state = "ok" /\ last.op = "write_trailer"
    /\ Len(written) = 2
    /\ hist.trailer_root = written[1]
    /\ reader.variable_data = hist.record_bytes[1]

\* C8: once a trailer has been written no byte is placed after it.
C8_TrailerLast == (hist.trailers > 0) => total_bytes_written = hist.trailer_end

\* C9: the header is written once, at offset 0, by the first of write_scalar,
\* prepare_array, write_array and write_trailer.
C9_HeaderOnce ==
    /\ (hist.first_op = "none") => (hist.header_offsets = <<>> /\ total_bytes_written = 0)
    /\ (hist.first_op # "none") =>
          /\ hist.header_offsets = <<0>>
          /\ SubSeq(File, 1, HeaderWriteSize) = HeaderBytes

\* the trailer was written first and records, each starting with
\* write_header_if_required, were written after it
C9_Witness == hist.first_op = "write_trailer" /\ hist.records = MaxRecords

\* C10: OmFileReader::new returns Err(NotAnOmFile) on bytes that are not a
\* complete OM file: damaged magic, version or trailer, or the backend content
\* of a session that has not written a trailer.
C10_NotAnOmFile ==
    (reader # NoReader /\ (hist.damage # "none" \/ hist.trailers = 0)) =>
        (reader.state = "err" /\ reader.err = "NotAnOmFile")

-----------------------------------------------------------------------------
(* write_data and prepare_array errors *)

\* the last call appended no byte and left chunk_index and the lookup table alone
RejectedWithoutEffect ==
    /\ total_bytes_written = last.before
    /\ Len(backend) = last.pre.flushed
    /\ array_writer # NoArray
    /\ array_writer.chunk_index = last.pre.chunk_index
    /\ array_writer.look_up_table = last.pre.look_up_table

\* the call fails one of the three tests that C18 names
WrongNumberOfElements ==
    \/ Len(last.args.count) # Len(array_writer.dimensions)
    \/ \E i \in 1..Len(last.args.count) :
          u64_gt(last.args.count[i], array_writer.dimensions[i])
    \/ last.args.length # Product(last.args.dimensions)

\* first axis on which array_offset + array_count, the sum of the two numbers,
\* exceeds array_dimensions; 0 if none
ExceedingAxis ==
    LET a == last.args
        n == Min(Len(a.dimensions), Min(Len(a.offset), Len(a.count)))
        bad == {i \in 1..n : \/ u64_add_overflows(a.offset[i], a.count[i])
                             \/ u64_gt(a.offset[i] + a.count[i], a.dimensions[i])}
    IN IF bad = {} THEN 0 ELSE CHOOSE i \in bad : \A j \in bad : i <= j

\* C17: a write_data call whose rectangle holds fewer values than the next chunk
\* has elements, and so cannot cover it, returns ChunkHasWrongNumberOfElements.
C17_PartialChunkRejected ==
    (/\ last.op = "write_data"
     /\ Len(last.args.count) = Len(array_writer.dimensions)
     /\ ExceedingAxis = 0
     /\ last.pre.chunk_index
            < om_encoder_count_chunks(array_writer.dimensions, array_writer.chunks)
     /\ Product(last.args.count)
            < Product(ChunkShape(array_writer.dimensions, array_writer.chunks,
                                 last.pre.chunk_index)))
    => last.err.kind = "ChunkHasWrongNumberOfElements"

\* C18: write_data_flat returns ChunkHasWrongNumberOfElements when array_count
\* has another rank than the array, exceeds the array on some axis, or the number
\* of values differs from the product of array_dimensions; the call appends no
\* byte and leaves chunk_index and the lookup table unchanged.
C18_WrongNumberOfElements ==
    (last.op = "write_data" /\ WrongNumberOfElements) =>
        /\ last.err.kind = "ChunkHasWrongNumberOfElements"
        /\ RejectedWithoutEffect

\* after a chunk had been written, a call whose count exceeds the array on the
\* first axis was rejected
C18_Witness ==
    /\ last.op = "write_data" /\ last.err.kind = "ChunkHasWrongNumberOfElements"
    /\ last.pre.chunk_index = 1 /\ last.pre.flushed > 0
    /\ last.args.count = <<MaxDim + 1, 1>>

\* C19: a write_data_flat call that passes the tests of C18 and whose
\* array_offset + array_count exceeds array_dimensions on some axis returns
\* OffsetAndCountExceedDimension with the offset, count and dimension of the
\* first such axis, appends no byte and leaves chunk_index and the lookup table
\* unchanged.
C19_OffsetAndCountExceedDimension ==
    (last.op = "write_data" /\ ~WrongNumberOfElements /\ ExceedingAxis # 0) =>
        /\ last.err = [kind |-> "OffsetAndCountExceedDimension",
                       offset |-> last.args.offset[ExceedingAxis],
                       count |-> last.args.count[ExceedingAxis],
                       dimension |-> last.args.dimensions[ExceedingAxis]]
        /\ RejectedWithoutEffect

\* C20: prepare_array with dimensions and chunks of different rank returns
\* MismatchingCubeDimensionLength, creates no array writer and hands no byte to
\* the backend.
C20_RankMismatchBeforeIO ==
    (/\ last.op = "prepare_array"
     /\ Len(last.args.dimensions) # Len(last.args.chunk_dimensions)) =>
        /\ last.err.kind = "MismatchingCubeDimensionLength"
        /\ array_writer = NoArray
        /\ Len(backend) = last.pre.flushed

\* the failing prepare_array was the first call of the session: it put the
\* header into the buffer and the backend is still empty
C20_Witness ==
    /\ last.op = "prepare_array" /\ last.err.kind = "MismatchingCubeDimensionLength"
    /\ hist.first_op = "prepare_array" /\ hist.arrays = 0
    /\ total_bytes_written = HeaderWriteSize /\ backend = <<>>

-----------------------------------------------------------------------------
(* Panics *)

\* C11: every failure is returned as an error value: no writer call, no
\* reader constructor, no get_child and no read ends in a panic
C11_NoPanic ==
    /\ last.err.kind # "panic"
    /\ reader.state # "panic"
    /\ read_result.state # "panic"

-----------------------------------------------------------------------------
(* The fall-through rule of the byte fetches *)

\* get_bytes_owned comes first; get_bytes is called exactly when the
\* get_bytes_owned call before it, with the same arguments, returned
\* NotImplementedError
FallThrough(calls) ==
    \A i \in 1..Len(calls) :
        /\ calls[i].method = "get_bytes" =>
              /\ i > 1
              /\ calls[i - 1] = Call("get_bytes_owned", calls[i].offset, calls[i].count,
                                     "NotImplementedError")
        /\ (calls[i].method = "get_bytes_owned" /\ calls[i].result = "NotImplementedError") =>
              /\ i < Len(calls)
              /\ calls[i + 1].method = "get_bytes"
              /\ calls[i + 1].offset = calls[i].offset
              /\ calls[i + 1].count = calls[i].count

\* a fetch that fails is the last thing the operation does, and the operation
\* returns the error the backend gave
ReturnedUnchanged(calls, err) ==
    \A i \in 1..Len(calls) :
        (calls[i].result # "ok"
         /\ ~(calls[i].method = "get_bytes_owned" /\ calls[i].result = "NotImplementedError")) =>
            (i = Len(calls) /\ err = calls[i].result)

\* C16: every fetch of OmFileReader::new, init_child_from_offset_size and decode
\* asks get_bytes_owned first and get_bytes if and only if that returned
\* NotImplementedError; any other error is what the operation returns; on a
\* backend with only get_bytes and on one with only get_bytes_owned the reader
\* opens with the root record, fetches the child record and reads to the end
C16_FallThrough ==
    /\ reader # NoReader =>
          /\ FallThrough(reader.calls)
          /\ ReturnedUnchanged(reader.calls, reader.err)
          /\ reader.backend \in {"get_bytes", "get_bytes_owned"} =>
                /\ reader.state = "ok"
                /\ reader.variable_data = hist.record_bytes[Len(hist.record_bytes)]
    /\ read_result # NoRead =>
          /\ FallThrough(read_result.calls)
          /\ read_result.op = "init_child_from_offset_size" =>
                /\ ReturnedUnchanged(read_result.calls, read_result.err)
                /\ reader.backend \in {"get_bytes", "get_bytes_owned"} =>
                      /\ read_result.state = "ok"
                      /\ read_result.variable_data = hist.record_bytes[1]
          /\ read_result.op \in {"read", "read_into"} =>
                /\ ReturnedUnchanged(read_result.calls, read_result.err.kind)
                /\ (reader.backend \in {"get_bytes", "get_bytes_owned"}
                    /\ Ended(read_result)
                    /\ read_result.args.dim_read \in Slices(hist.array.dimensions)
                    /\ Len(read_result.args.into_cube_offset) = Len(hist.array.dimensions)
                    /\ Len(read_result.args.into_cube_dimension) = Len(hist.array.dimensions)) =>
                      read_result.state = "Done"

\* a read over a backend with get_bytes only has ended after an index read and
\* four data reads, each fetched by the fallback
C16_Witness ==
    /\ reader # NoReader /\ reader.backend = "get_bytes" /\ Len(reader.calls) = 6
    /\ read_result # NoRead /\ read_result.op = "read" /\ read_result.state = "Done"
    /\ Len(read_result.calls) = 10

-----------------------------------------------------------------------------
(* I/O coalescing *)

\* a read of an array has returned Ok
ReadDone == read_result # NoRead /\ read_result.op \in {"read", "read_into"} /\ read_result.state = "Done"

\* the chunks the slice of the read touches
Touched ==
    ChunksToRead(hist.array.dimensions, hist.array.chunks,
                 [i \in 1..Len(read_result.args.dim_read) |-> read_result.args.dim_read[i].start],
                 out_dims_of(read_result.args.dim_read))

\* where the writer has put chunk c: hist.lut[c + 1] is entry c of its lookup table
ChunkStart(c) == hist.lut[c + 1]

ChunkEnd(c) == hist.lut[c + 2]

\* the two I/O sizes in force during the read
IoSizeMax == IF read_result.args.io_size_max.some THEN read_result.args.io_size_max.value ELSE 65536

IoSizeMerge == IF read_result.args.io_size_merge.some THEN read_result.args.io_size_merge.value ELSE 512

\* the index reads and the data reads of the read, in the order of their issue
ReadsOfKind(kind) == SelectSeq(read_result.reads, LAMBDA r : r.kind = kind)

\* the touched chunks that a read fetches
ChunksIn(r) == {c \in Touched : r.offset <= ChunkStart(c) /\ ChunkEnd(c) <= r.offset + r.count}

\* the data reads are runs of touched chunks: each begins and ends with a
\* touched chunk, they ascend without overlap, every touched chunk is in
\* exactly one of them, a gap inside a read is at most io_size_merge long, and
\* a read ends where the next touched chunk is further than io_size_merge away
\* or would make the read longer than io_size_max
MergedRuns(reads) ==
    /\ \A i \in 1..Len(reads) :
          /\ \E c \in Touched : ChunkStart(c) = reads[i].offset
          /\ \E c \in Touched : ChunkEnd(c) = reads[i].offset + reads[i].count
          /\ \A c1 \in ChunksIn(reads[i]), c2 \in ChunksIn(reads[i]) :
                (c1 < c2 /\ ~\E c \in Touched : c1 < c /\ c < c2) =>
                    ChunkStart(c2) - ChunkEnd(c1) <= IoSizeMerge
    /\ \A i \in 1..(Len(reads) - 1) :
          /\ reads[i].offset + reads[i].count <= reads[i + 1].offset
          /\ \/ reads[i + 1].offset - (reads[i].offset + reads[i].count) > IoSizeMerge
             \/ \E c \in Touched : /\ ChunkStart(c) = reads[i + 1].offset
                                   /\ ChunkEnd(c) - reads[i].offset > IoSizeMax
    /\ \A c \in Touched : Cardinality({i \in 1..Len(reads) : c \in ChunksIn(reads[i])}) = 1

\* the lookup table of the array is one LUT chunk, fetched whole by one index
\* read before the first data read
WholeLut(index_reads) ==
    /\ Len(index_reads) = 1
    /\ index_reads[1].offset = hist.array.lut_offset
    /\ index_reads[1].count = hist.array.lut_size
    /\ read_result.reads[1].kind = "index"

-----------------------------------------------------------------------------
(* The decode run *)

\* the backend serves every fetch of the reader
Working == reader # NoReader /\ reader.backend \in {"get_bytes", "get_bytes_owned"}

\* the steps a decode run may take
DecodeTransitions ==
    {<<"Start", "NextIndexRead">>, <<"NextIndexRead", "NextDataRead">>,
     <<"NextDataRead", "DecodeChunk">>, <<"DecodeChunk", "NextDataRead">>,
     <<"DecodeChunk", "NextIndexRead">>, <<"DecodeChunk", "Done">>}

\* every data read issued so far lies within an index read issued, and
\* fetched, before it
DataAfterIndex ==
    \A j \in 1..Len(read_result.reads) :
        read_result.reads[j].kind = "data" =>
            /\ \E i \in 1..(j - 1) :
                  /\ read_result.reads[i].kind = "index"
                  /\ read_result.reads[i].lower <= read_result.reads[j].lower
                  /\ read_result.reads[j].upper <= read_result.reads[i].upper
            /\ \E k \in 1..Len(read_result.calls) :
                  /\ read_result.calls[k].offset = hist.array.lut_offset
                  /\ read_result.calls[k].count = hist.array.lut_size
                  /\ read_result.calls[k].result = "ok"
                  /\ \A m \in 1..(k - 1) : read_result.calls[m].offset = hist.array.lut_offset

\* the chunks decoded so far are in ascending order
AscendingOrder(chunk_indices) ==
    \A i \in 1..(Len(chunk_indices) - 1) : chunk_indices[i] < chunk_indices[i + 1]

-----------------------------------------------------------------------------
(* What a read returns *)

\* C14: read returns the values it returns with io_size_max and io_size_merge
\* None (65536 and 512), whatever the two sizes are
C14_IoSizesKeepValues ==
    (ReadDone /\ read_result.op = "read") =>
        \E defaults \in {read(Backend, reader.variable_data, read_result.args.dim_read,
                              None, None, FALSE)} :
            /\ defaults.state = "Done"
            /\ read_result.into = defaults.into

\* the whole of an array of four chunks read with io_size_max 0 and
\* io_size_merge 0, in four data reads
C14_Witness ==
    /\ ReadDone /\ read_result.op = "read"
    /\ read_result.args.io_size_max = Some(0) /\ read_result.args.io_size_merge = Some(0)
    /\ Len(ReadsOfKind("data")) = 4
    /\ read_result.into = <<1, 2, 3, 4>>

\* the coordinates of destination cell p (from 1) and whether the cell lies in
\* the hyper-rectangle [into_cube_offset, into_cube_offset + read_count)
CellOf(p) == Coordinates(read_result.args.into_cube_dimension, p - 1)

InRectangle(p) ==
    \A i \in 1..Len(read_result.args.dim_read) :
        /\ read_result.args.into_cube_offset[i] <= CellOf(p)[i]
        /\ CellOf(p)[i] < read_result.args.into_cube_offset[i]
                          + out_dims_of(read_result.args.dim_read)[i]

\* the element of the stored array that belongs in cell p of the rectangle
SliceElement(p) ==
    SourceArray(hist.array.dimensions)[
        Linear(hist.array.dimensions,
               [i \in 1..Len(read_result.args.dim_read) |->
                   read_result.args.dim_read[i].start + CellOf(p)[i]
                   - read_result.args.into_cube_offset[i]]) + 1]

\* C15: read_into puts each element of the slice into its cell of the
\* hyper-rectangle [into_cube_offset, into_cube_offset + read_count) of the
\* destination and leaves every other cell of the destination as it was
C15_ReadIntoFrame ==
    (ReadDone /\ read_result.op = "read_into") =>
        /\ Len(read_result.into) = Len(read_result.args.into)
        /\ \A p \in 1..Len(read_result.into) :
              read_result.into[p] = IF InRectangle(p) THEN SliceElement(p)
                                    ELSE read_result.args.into[p]

\* the second column of a 2x2 array read into the second column of a 3x2
\* destination, from its second row on
C15_Witness ==
    /\ ReadDone /\ read_result.op = "read_into"
    /\ read_result.args.dim_read = <<[start |-> 0, end |-> 2], [start |-> 1, end |-> 2]>>
    /\ read_result.args.into_cube_offset = <<1, 1>>
    /\ read_result.args.into_cube_dimension = <<3, 2>>
    /\ read_result.into = <<101, 102, 103, 2, 105, 4>>

-----------------------------------------------------------------------------
(* Errors of read and read_into *)

\* the rank of the stored array differs from the number of ranges, of
\* into_cube_offset entries or of into_cube_dimension entries of the call
WrongRank ==
    \/ Len(read_result.args.dim_read) # Len(hist.array.dimensions)
    \/ Len(read_result.args.into_cube_offset) # Len(hist.array.dimensions)
    \/ Len(read_result.args.into_cube_dimension) # Len(hist.array.dimensions)

ExceededAxes ==
    {i \in 1..Len(hist.array.dimensions) :
        read_result.args.dim_read[i].end > hist.array.dimensions[i]}

\* C22: read and read_into called with a range whose offset plus count exceeds
\* the stored dimension return OffsetAndCountExceedDimension with the offset,
\* the count and the dimension of that axis
C22_OffsetAndCountExceedDimension ==
    (/\ read_result # NoRead /\ read_result.op \in {"read", "read_into"}
     /\ ~WrongRank
     /\ \A i \in 1..Len(hist.array.dimensions) :
           read_result.args.dim_read[i].start <= read_result.args.dim_read[i].end
     /\ ExceededAxes # {}) =>
        /\ read_result.state = "err"
        /\ \E i \in ExceededAxes :
              read_result.err =
                  [kind |-> "OffsetAndCountExceedDimension",
                   offset |-> read_result.args.dim_read[i].start,
                   count |-> read_result.args.dim_read[i].end - read_result.args.dim_read[i].start,
                   dimension |-> hist.array.dimensions[i]]

-----------------------------------------------------------------------------
(* Feeding an array chunk by chunk *)

\* the writer after one write_data call with the whole array on a new file,
\* and after finalize
SingleCall(dimensions, chunks) ==
    LET b0 == write_header_if_required(OmBufferedWriter_new(initial_capacity))
        aw0 == OmFileWriterArray_new(dimensions, chunks).aw
        w == write_data_flat(aw0, b0, SourceArray(dimensions), dimensions,
                             [i \in 1..Len(dimensions) |-> 0], dimensions, 0, FALSE)
    IN [written |-> w, finalized |-> finalize(w.aw, w.b)]

\* the file holds one array and nothing else, and no call was rejected or panicked
OnlyArray ==
    /\ hist.first_op = "prepare_array" /\ hist.arrays = 1
    /\ hist.records = 0 /\ hist.trailers = 0
    /\ hist.rejected = 0 /\ ~hist.panicked

\* C23: an array fed by successive write_data calls, each with whole chunks in
\* row-major chunk order, has the lookup table and the file bytes of the array
\* fed by one call, when the last chunk is written and after finalize
C23_ChunkwiseEqualsSingleCall ==
    /\ (/\ OnlyArray /\ array_writer # NoArray
        /\ array_writer.chunk_index
             = om_encoder_count_chunks(array_writer.dimensions, array_writer.chunks)) =>
          \E s \in {SingleCall(array_writer.dimensions, array_writer.chunks)} :
             /\ array_writer.look_up_table = s.written.aw.look_up_table
             /\ File = FileBytes(s.written.b)
    /\ (/\ OnlyArray /\ last.op = "finalize"
        /\ hist.chunks_written
             = om_encoder_count_chunks(hist.array.dimensions, hist.array.chunks)) =>
          \E s \in {SingleCall(hist.array.dimensions, hist.array.chunks)} :
             /\ hist.lut = s.written.aw.look_up_table
             /\ finalized = s.finalized.array
             /\ File = FileBytes(s.finalized.b)

\* a row of two chunks completes a 2x2 array of four chunks whose first row
\* was fed before
C23_Witness ==
    /\ OnlyArray /\ array_writer # NoArray
    /\ array_writer.dimensions = <<2, 2>> /\ array_writer.chunks = <<1, 1>>
    /\ array_writer.chunk_index = 4
    /\ last.op = "write_chunks" /\ last.pre.chunk_index = 2

-----------------------------------------------------------------------------
(* The file as a function of the operations *)

\* a second writer, of an initial capacity no file of the session fills, that
\* was given the operations this writer was given and holds the same file: it
\* has delivered what the last write_trailer flushed and buffers the rest
LargeWriter ==
    [buffer |-> SubSeq(File, hist.trailer_end + 1, Len(File))
                \o Zeros(512 - (Len(File) - hist.trailer_end)),
     write_position |-> Len(File) - hist.trailer_end,
     total_bytes_written |-> total_bytes_written,
     initial_capacity |-> 512,
     backend |-> SubSeq(File, 1, hist.trailer_end)]

\* every operation of this writer leaves what the same operation leaves in the
\* second writer, as far as Same(b2) compares the two, and returns the same
SameAfterEachOperation(Same(_)) ==
    /\ last'.op = "write_scalar" =>
          \A s \in Scalars, c \in ChildLists(written, MaxChildren) :
             WriteScalar(s, c) =>
                \E r \in {write_scalar(LargeWriter, s[1], s[2], s[3], c)} :
                   Same(r.b) /\ last'.result = r.result
    /\ last'.op = "prepare_array" =>
          \A shape \in SessionShapes :
             PrepareArray(shape[1], shape[2]) => Same(write_header_if_required(LargeWriter))
    /\ last'.op = "write_data" =>
          \A rectangle \in WriteRectangles(array_writer), g \in {0, 255}, oc \in BOOLEAN :
             WriteData(rectangle, g, oc) =>
                \E r \in {write_data_flat(array_writer, LargeWriter,
                                          SourceArray(<<rectangle.length>>),
                                          rectangle.dimensions, rectangle.offset,
                                          rectangle.count, g, oc)} :
                   Same(r.b) /\ array_writer' = r.aw /\ last'.err = r.err
    /\ (last'.op = "finalize" /\ Finalize) =>
          \E r \in {finalize(array_writer, LargeWriter)} : Same(r.b) /\ finalized' = r.array
    /\ last'.op = "write_array" =>
          \A n \in Names, c \in ChildLists(written, MaxChildren) :
             WriteArray(n, c) =>
                \E r \in {write_array(LargeWriter, finalized, n, c)} :
                   Same(r.b) /\ last'.result = r.result
    /\ last'.op = "write_trailer" =>
          \A root \in Roots :
             WriteTrailer(root) =>
                \E b2 \in {write_trailer(LargeWriter, root)} :
                   Same(b2) /\ backend' = b2.backend

\* the second writer has delivered to its backend what this writer has
SameDelivered(b2) == backend' = b2.backend

\* the second writer holds the file this writer holds: the bytes delivered
\* followed by the bytes buffered
SameFile(b2) == File' = FileBytes(b2) /\ total_bytes_written' = b2.total_bytes_written

\* C24: two writers given the same operations with the same arguments deliver
\* byte-identical content to their backends, whatever the initial capacity of
\* each and wherever its flushes fall
C24_DeliveredIdentical == [][SameAfterEachOperation(SameDelivered)]_vars

\* C24 amended: the two writers hold byte-identical files, delivered bytes
\* followed by buffered bytes, after every operation, and have delivered
\* byte-identical content when write_trailer returns
C24_FileIdentical == [][SameAfterEachOperation(SameFile)]_vars

\* a writer of capacity 8 has written an array record and a trailer and
\* flushed before the trailer
C24_Witness ==
    /\ initial_capacity = 8 /\ last.op = "write_trailer"
    /\ hist.arrays = 1 /\ hist.records > 0
    /\ last.pre.flushed > 0 /\ write_position = 0

-----------------------------------------------------------------------------
(* The variable tree *)

\* the children a node of the tree lists
ListedChildren(t, name) ==
    IF name \in DOMAIN t.nodes
    THEN {t.nodes[name].children[i] : i \in 1..Len(t.nodes[name].children)}
    ELSE {}

\* the names reached from a name along the parent -> child relation in one
\* to n steps
RECURSIVE Descendants(_, _, _)
Descendants(t, names, n) ==
    IF n = 0 THEN {}
    ELSE LET below == UNION {ListedChildren(t, name) : name \in names}
         IN below \cup Descendants(t, below, n - 1)

\* the parent -> child relation of the tree contains a cycle
HasCycle(t) ==
    \E name \in DOMAIN t.nodes : name \in Descendants(t, {name}, Cardinality(TreeNames))

\* C25: validate_tree returns an error for every tree, built by any sequence of
\* add_node and set_children calls, whose parent -> child relation contains a
\* cycle, a node that is its own child included, in whatever order the nodes
\* are visited
C25_CyclesRejected ==
    HasCycle(tree) =>
        /\ \A keys \in KeyOrders(tree.nodes) : validate_tree(tree, keys) # "ok"
        /\ last.op = "validate_tree" => last.err.kind # "ok"

\* validate_tree has found the cycle between a and b in a tree whose root c is
\* outside the cycle
C25_Witness ==
    /\ last.op = "validate_tree" /\ last.err.kind = "Cycle detected in variable tree"
    /\ tree.root = "c" /\ ~("c" \in Descendants(tree, {"c"}, 3))
    /\ "a" \in ListedChildren(tree, "b") /\ "b" \in ListedChildren(tree, "a")

\* the position of a name in a write order; 0 if it is not in it
PositionIn(write_order, name) ==
    IF \E i \in 1..Len(write_order) : write_order[i] = name
    THEN CHOOSE i \in 1..Len(write_order) : write_order[i] = name
    ELSE 0

\* C26: write_variables on a tree that validate_tree accepts writes every child
\* before its parent: the record of a child ends at or before the offset of the
\* record of each parent that is written, and the call never fails with
\* 'Child has not been written yet'
C26_ChildrenBeforeParents ==
    last.op = "write_variables" =>
        /\ last.err.kind # "Child has not been written yet"
        /\ last.err.kind = "ok" =>
              \A parent \in DOMAIN last.args.offset_sizes :
                 \A child \in ListedChildren(last.args.tree, parent) :
                    /\ child \in DOMAIN last.args.offset_sizes
                    /\ PositionIn(last.args.write_order, child) > 0
                    /\ PositionIn(last.args.write_order, child)
                         < PositionIn(last.args.write_order, parent)
                    /\ last.args.offset_sizes[child].offset + last.args.offset_sizes[child].size
                         <= last.args.offset_sizes[parent].offset

\* write_variables has written a and b and then their parent c
C26_Witness ==
    /\ last.op = "write_variables" /\ last.err.kind = "ok"
    /\ last.args.write_order = <<"a", "b", "c">>
    /\ last.args.tree.nodes["c"].children = <<"a", "b">>
    /\ last.result = last.args.offset_sizes["c"]
    /\ last.result.offset > 0

\* child was named by set_children of parent before add_node created it: the
\* parent lists it and no set_children call has found it
ForwardDeclared(t, parent, child) ==
    /\ parent \in DOMAIN t.nodes /\ child \in DOMAIN t.nodes
    /\ child \in ListedChildren(t, parent)
    /\ t.nodes[child].parent = ""

\* C27: a child named in set_children before its add_node is wired like one
\* added beforehand: after its add_node it is not the root, its parents list
\* it and validate_tree accepts the tree if nothing else is wrong with it;
\* write_variables writes the child and then the parent and returns the parent
C27_ForwardDeclaredChild ==
    /\ (last.op = "add_node" /\ last.err.kind = "ok" /\ last.args.parents # {}) =>
          /\ tree.root # last.args.name
          /\ \A parent \in last.args.parents : ForwardDeclared(tree, parent, last.args.name)
          /\ (DOMAIN tree.pending_parents = {} /\ ~HasCycle(tree)) =>
                \A keys \in KeyOrders(tree.nodes) : validate_tree(tree, keys) = "ok"
    /\ (last.op = "write_variables" /\ last.err.kind = "ok") =>
          \A parent, child \in DOMAIN last.args.tree.nodes :
             (/\ ForwardDeclared(last.args.tree, parent, child)
              /\ last.args.tree.nodes[parent].parent = ""
              /\ last.args.tree.root \in {parent, child}) =>
                /\ last.args.tree.root = parent
                /\ PositionIn(last.args.write_order, child) > 0
                /\ PositionIn(last.args.write_order, child)
                     < PositionIn(last.args.write_order, parent)
                /\ last.result = last.args.offset_sizes[parent]

-----------------------------------------------------------------------------
(* The hierarchy as it was written, from the arguments of the record writes *)

\* the record (from 1) that a result of the writer stands for, 0 for none
RecordOf(offset_size) ==
    IF \E k \in 1..Len(written) : written[k] = offset_size
    THEN CHOOSE k \in 1..Len(written) : written[k] = offset_size
    ELSE 0

\* the records listed as the children of record k, in the order given
ChildRecords(k) ==
    [i \in 1..Len(hist.record_args[k].children) |->
        RecordOf(hist.record_args[k].children[i])]

\* the paths of records that lead from record k downwards, k first
RECURSIVE PathsFrom(_)
PathsFrom(k) ==
    {<<k>>} \cup UNION {{<<k>> \o p : p \in PathsFrom(ChildRecords(k)[i])} :
                          i \in 1..Len(ChildRecords(k))}

\* the record the trailer names as the root
RootRecord == RecordOf(hist.trailer_root)

PathNames(p) == [i \in 1..Len(p) |-> hist.record_args[p[i]].name]

\* the key of a path: its names with a '/' between them
RECURSIVE PathKey(_)
PathKey(names) ==
    IF Len(names) = 1 THEN names[1]
    ELSE PathKey(SubSeq(names, 1, Len(names) - 1)) \o <<47>> \o names[Len(names)]

\* what the writer knows of record k
WrittenEntry(k) ==
    [offset_size |-> written[k], is_scalar |-> hist.record_args[k].op = "write_scalar"]

Reachable == {p[Len(p)] : p \in PathsFrom(RootRecord)}

\* among the reachable records, the children of one record bear different names
UniqueSiblingNames ==
    \A k \in Reachable : \A i, j \in 1..Len(ChildRecords(k)) :
        hist.record_args[ChildRecords(k)[i]].name = hist.record_args[ChildRecords(k)[j]].name
        => i = j

MetadataReturned ==
    /\ read_result # NoRead
    /\ read_result.op = "get_flat_variable_metadata"
    /\ read_result.state = "ok"

\* the entries whose value is what the writer returned for record k
EntriesOf(k) ==
    {key \in DOMAIN read_result.entries : read_result.entries[key] = WrittenEntry(k)}

WrittenChildren(k) == hist.record_args[k].children

ChildAsked ==
    /\ read_result # NoRead
    /\ read_result.op = "get_child"

\* the reader r is a reader over record k: its place, its bytes, its name and,
\* for a scalar, its value
ReaderOver(r, k) ==
    /\ r.state = "ok"
    /\ r.has_offset_size /\ r.offset_size = written[k]
    /\ r.variable_data = hist.record_bytes[k]
    /\ get_name(r.variable_data) = hist.record_args[k].name
    /\ hist.record_args[k].op = "write_scalar"
       => read_scalar(hist.record_args[k].data_type, r.variable_data)
          = Some(hist.record_args[k].value)

\* C29: for a record written with the children [c0, ..., c(n-1)],
\* number_of_children is n, get_child(i) for i < n is a reader over the record
\* at ci, in the order given at write time, and get_child(i) for i >= n is None
C29_ChildrenAsWritten ==
    reader.state = "ok" /\ RootRecord > 0
    => /\ number_of_children(reader.variable_data) = Len(WrittenChildren(RootRecord))
       /\ ChildAsked
          => IF read_result.args.index < Len(WrittenChildren(RootRecord))
             THEN ReaderOver(read_result,
                             RecordOf(WrittenChildren(RootRecord)[read_result.args.index + 1]))
             ELSE read_result.state = "None"

\* the second of two different children has been asked for
C29_Witness ==
    /\ reader.state = "ok" /\ RootRecord > 0
    /\ ChildAsked /\ read_result.args.index = 1 /\ read_result.state = "ok"
    /\ Len(WrittenChildren(RootRecord)) = 2
    /\ WrittenChildren(RootRecord)[1] # WrittenChildren(RootRecord)[2]
    /\ hist.record_args[RecordOf(WrittenChildren(RootRecord)[2])].op = "write_scalar"

\* thread t is inside f(reader) or about to enter it
InsideRead(t) == py.threads[t].pc \in {"with_reader", "reading"}

\* C30: a read started on a reader while its close holds the write lock fails
\* at once with an error, neither blocking nor reading; and no read runs on a
\* reader whose backend has been closed
C30_NoReadWhileOrAfterClose ==
    py.state = "open"
    => \A t \in Threads :
         /\ py.threads[t].found_writer
            => py.threads[t].pc = "idle" /\ py.threads[t].result = "being closed"
         /\ py.threads[t].pc = "reading" => ~py.closed
         /\ py.threads[t].pc = "reading" => py.objects[py.threads[t].object].reader
         /\ ~py.threads[t].used_closed
         /\ InsideRead(t) => ~py.objects[py.threads[t].object].lock.writer

\* one thread has been refused while another is between try_write and the
\* release of the write guard, and the backend has been closed by then
C30_Witness ==
    /\ py.state = "open"
    /\ \E t, u \in Threads :
         /\ py.threads[t].found_writer /\ py.threads[t].result = "being closed"
         /\ py.threads[u].pc = "taken"
         /\ py.closed

\* thread t has finished an operation that it began on an object after a
\* close() of that object had returned Ok
FinishedAfterClose(t) ==
    /\ py.threads[t].pc = "idle"
    /\ py.threads[t].after_close

\* C38: after close() has returned Ok, closed is true, every later operation
\* fails with 'I/O operation on closed reader or file', and a further close()
\* is a no-op that returns Ok
C38_ClosedAfterClose ==
    py.state = "open"
    => \A t \in Threads :
         FinishedAfterClose(t)
         => /\ py.threads[t].op = "closed" => py.threads[t].result = "closed: true"
            /\ py.threads[t].op \in {"with_reader", "__getitem__"}
               => py.threads[t].result = "closed"
            /\ py.threads[t].op = "close" => py.threads[t].result = "close ok"

\* thread t met the guard of another call: the lock was held when it asked
LockFree(t) == py.threads[t].result \notin {"being closed", "lock error"}

\* C38 as amended: the same for every later operation that finds the lock
\* free, except that __getitem__ returns the error of to_read_range when the
\* index is one that to_read_range rejects; no later operation reads
C38_ClosedAfterCloseWhenLockFree ==
    py.state = "open"
    => \A t \in Threads :
         /\ FinishedAfterClose(t) /\ LockFree(t)
            => /\ py.threads[t].op = "closed" => py.threads[t].result = "closed: true"
               /\ py.threads[t].op = "with_reader" => py.threads[t].result = "closed"
               /\ py.threads[t].op = "__getitem__"
                  => py.threads[t].result \in {"closed", "IndexError", "ValueError"}
               /\ py.threads[t].op = "close" => py.threads[t].result = "close ok"
         /\ py.threads[t].after_close
            => py.threads[t].pc \in {"idle", "with_reader", "closing", "taken"}
         /\ py.threads[t].after_close /\ py.threads[t].pc \in {"closing", "taken"}
            => ~py.objects[py.threads[t].object].reader

\* after a close() that returned Ok, a read has failed as closed and a second
\* close() has returned Ok
C38_Witness ==
    /\ py.state = "open"
    /\ \E t, u \in Threads :
         /\ FinishedAfterClose(t) /\ py.threads[t].op = "with_reader"
         /\ py.threads[t].result = "closed"
         /\ FinishedAfterClose(u) /\ py.threads[u].op = "close"
         /\ py.threads[u].result = "close ok"

-----------------------------------------------------------------------------
(* The index layer *)

Converted == read_result # NoRead /\ read_result.op = "to_read_range"

SameRank == Len(read_result.index) = Len(read_result.shape)

\* the integers an index element names: its integer, or its slice bounds
IntegersOf(e) ==
    IF e.kind = "Int" THEN {e.i}
    ELSE IF e.kind = "Slice"
    THEN {b.value : b \in {x \in {e.start, e.stop} : x.some}}
    ELSE {}

HasStep(e) == e.kind = "Slice" /\ e.step.some /\ e.step.value # 1

\* no read has been issued for the index: the thread is back with the error,
\* without a guard and without having touched the backend
NothingRead ==
    /\ py.threads[1].pc = "idle" /\ py.threads[1].result = read_result.err
    /\ py.objects[1].lock.readers = 0

Plain(e) ==
    \/ e.kind = "NewAxis"
    \/ e.kind = "Int" /\ e.i \in {0, -1}
    \/ e.kind = "Slice" /\ ~e.start.some /\ ~e.stop.some /\ ~HasStep(e)

OthersPlain(k) == \A j \in 1..Len(read_result.index) : j # k => Plain(read_result.index[j])

\* C32: a negative integer or slice bound i with -dim <= i < 0 stands for
\* i + dim, and every i < -dim is rejected with an index error
C32_NegativeCountsFromEnd ==
    Converted /\ SameRank
    => \A k \in 1..Len(read_result.index) :
         LET e == read_result.index[k]
             dim == read_result.shape[k]
         IN /\ e.kind = "Int" /\ e.i < 0 /\ e.i >= 0 - dim
               => /\ read_result.err = "ok" => read_result.ranges[k] = Range(e.i + dim, e.i + dim + 1)
                  /\ OthersPlain(k) => read_result.err = "ok"
            /\ e.kind = "Slice" /\ e.start.some /\ e.start.value < 0 /\ e.start.value >= 0 - dim
               => /\ read_result.err = "ok" => read_result.ranges[k].start = e.start.value + dim
                  /\ OthersPlain(k) /\ ~HasStep(e) /\ ~e.stop.some => read_result.err = "ok"
            /\ e.kind = "Slice" /\ e.stop.some /\ e.stop.value < 0 /\ e.stop.value > 0 - dim
               => /\ read_result.err = "ok" => read_result.ranges[k].end = e.stop.value + dim
                  /\ OthersPlain(k) /\ ~HasStep(e) /\ ~e.start.some => read_result.err = "ok"
            /\ (\E i \in IntegersOf(e) : i < 0 - dim)
               => /\ read_result.err # "ok"
                  /\ OthersPlain(k) /\ ~HasStep(e) => read_result.err = "IndexError"

\* the slice -2..-1 of the last axis has been asked for and granted
C32_Witness ==
    /\ Converted /\ SameRank /\ read_result.err = "ok"
    /\ \E k \in 1..Len(read_result.index) :
         /\ read_result.index[k] = IndexType_Slice(Some(-2), Some(-1), None)
         /\ read_result.ranges[k] = Range(read_result.shape[k] - 2, read_result.shape[k] - 1)
    /\ py.threads[1].result = "ok"

\* C40: whenever to_read_range returns Ok it returns one range per array
\* dimension, each with 0 <= start < end <= shape[i]
C40_RangesInsideShape ==
    Converted /\ read_result.err = "ok"
    => /\ Len(read_result.ranges) = Len(read_result.shape)
       /\ \A i \in 1..Len(read_result.shape) :
            /\ 0 <= read_result.ranges[i].start
            /\ read_result.ranges[i].start < read_result.ranges[i].end
            /\ read_result.ranges[i].end <= read_result.shape[i]

-----------------------------------------------------------------------------
(* Chunks supplied beyond the array *)

\* the number of chunks of the array the encoder was made for
NChunks(aw) == om_encoder_count_chunks(aw.dimensions, aw.chunks)

\* the last call was a write_data that passed the argument tests and supplied
\* more chunks than the array still lacked
SuppliedTooMany ==
    /\ last.op = "write_data" /\ array_writer # NoArray
    /\ last.err.kind \notin {"ChunkHasWrongNumberOfElements", "OffsetAndCountExceedDimension"}
    /\ Len(last.args.count) = Len(array_writer.dimensions)
    /\ last.pre.chunk_index
         + om_encoder_count_chunks_in_array(array_writer.chunks, last.args.count)
       > NChunks(array_writer)

\* C33: chunk_index never exceeds n_chunks and the lookup table keeps its
\* n_chunks + 1 entries; a call that would supply more chunks than the array
\* has is rejected with an error and writes nothing
C33_TooManyChunksRejected ==
    /\ array_writer # NoArray
       => /\ array_writer.chunk_index <= NChunks(array_writer)
          /\ Len(array_writer.look_up_table) = NChunks(array_writer) + 1
    /\ SuppliedTooMany
       => /\ last.err.kind \notin {"ok", "panic"}
          /\ total_bytes_written = last.before
          /\ array_writer.chunk_index = last.pre.chunk_index
          /\ array_writer.look_up_table = last.pre.look_up_table


-----------------------------------------------------------------------------
(* What the tree writes, which node is its root and who is whose child *)

\* how often a name occurs in a sequence of names
Occurrences(names, name) == Cardinality({i \in 1..Len(names) : names[i] = name})

\* the nodes of a tree that list a name among their children
ListingParents(t, name) == {p \in DOMAIN t.nodes : name \in ListedChildren(t, p)}

\* C34: a successful write_variables writes every node that was added to the
\* tree exactly once: each node is once in the write order and has its record,
\* in whatever order add_node and set_children were called
C34_EveryNodeWrittenOnce ==
    (last.op = "write_variables" /\ last.err.kind = "ok") =>
        \A name \in DOMAIN last.args.tree.nodes :
           /\ Occurrences(last.args.write_order, name) = 1
           /\ name \in DOMAIN last.args.offset_sizes

\* C35: the root chosen by the tree builder has no parent: after any sequence
\* of add_node and set_children calls it is in no node's children list, and
\* the root that write_variables returns is a node that no node lists
C35_RootHasNoParent ==
    /\ tree.root # "" => ListingParents(tree, tree.root) = {}
    /\ (last.op = "write_variables" /\ last.err.kind = "ok"
        /\ last.args.tree.root \in DOMAIN last.args.offset_sizes) =>
          /\ last.result = last.args.offset_sizes[last.args.tree.root]
          /\ ListingParents(last.args.tree, last.args.tree.root) = {}

\* C36: every node is the child of at most one parent: after any sequence of
\* add_node and set_children calls, successful or failed, no name is in the
\* children lists of two nodes or twice in one list, and the parent field of a
\* node is set exactly when some node lists it and then names that node
C36_AtMostOneParent ==
    /\ \A name \in TreeNames :
          /\ Cardinality(ListingParents(tree, name)) <= 1
          /\ \A p \in DOMAIN tree.nodes : Occurrences(tree.nodes[p].children, name) <= 1
    /\ \A name \in DOMAIN tree.nodes :
          /\ tree.nodes[name].parent # "" <=> ListingParents(tree, name) # {}
          /\ tree.nodes[name].parent # "" =>
                tree.nodes[name].parent \in ListingParents(tree, name)

-----------------------------------------------------------------------------
(* Room in the write buffer *)

\* the smallest multiple of unit that is at least n
SmallestMultiple(unit, n) == CHOOSE m \in 0..(n + unit) : m % unit = 0 /\ m >= n /\ m - unit < n

\* C37: reallocate(min) returning Ok leaves remaining_capacity >= min; it
\* flushes the buffered bytes to the backend, in order and without loss, only
\* when the remaining capacity was below min, and grows the buffer only if it
\* is still short afterwards, to the smallest multiple of initial_capacity that
\* is >= min; the buffer never shrinks
C37_Reallocate ==
    last.op = "reallocate" =>
        LET min == last.args.minimum_capacity
            old == last.args.buffer
            position == last.args.write_position
        IN /\ Len(buffer) - write_position >= min
           /\ total_bytes_written = last.before
           /\ Len(buffer) >= Len(old)
           /\ Len(old) - position >= min =>
                 /\ buffer = old /\ write_position = position
                 /\ Len(backend) = last.pre.flushed
           /\ Len(old) - position < min =>
                 /\ write_position = 0
                 /\ Len(backend) = last.pre.flushed + position
                 /\ SubSeq(backend, last.pre.flushed + 1, Len(backend)) = SubSeq(old, 1, position)
                 /\ \A i \in 1..Len(buffer) : i <= position => buffer[i] = 0
                 /\ Len(buffer) = IF Len(old) >= min THEN Len(old)
                                  ELSE SmallestMultiple(initial_capacity, min)

\* reallocate has flushed buffered bytes and has grown the buffer to more than
\* the request, which is no multiple of the initial capacity
C37_Witness ==
    /\ last.op = "reallocate"
    /\ last.args.write_position > 0 /\ Len(backend) > last.pre.flushed
    /\ Len(buffer) > Len(last.args.buffer)
    /\ Len(buffer) > last.args.minimum_capacity

-----------------------------------------------------------------------------
(* Concurrent fetches through one FsSpecBackend *)

\* C39: concurrent get_bytes_owned calls on one FsSpecBackend each return
\* exactly the bytes at [offset, offset + count) that the call asked for: in
\* every interleaving the seek and the read of one call are not separated by
\* the seek of another call on the same file object, so a call that has sought
\* finds the file at its offset
C39_ConcurrentReadsExact ==
    py.state = "fsspec" =>
        \A t \in Threads :
           /\ py.calls[t].pc = "seeked" => py.position = py.calls[t].offset
           /\ py.calls[t].pc = "returned" =>
                 py.calls[t].bytes = SubSeq(py.file, py.calls[t].offset + 1,
                                            py.calls[t].offset + py.calls[t].count)

====
